---- MODULE Spec2Model ----
(***************************************************************************)
(* Model of api-docs-cli: the spec cache (cache.js), the OpenAPI direct    *)
(* fetch / path probing extractor (extractors/openapi.js) and the fetch /  *)
(* endpoints command handlers (bin/api-docs.js).                           *)
(*                                                                         *)
(* Strings are sequences of tokens: a token is an indivisible piece of a   *)
(* URL (scheme, host, one path segment, an extension, one blank).          *)
(***************************************************************************)
EXTENDS Integers, Sequences, FiniteSets, TLC

VARIABLES
    now,            \* the wall clock (new Date()), in ticks
    manifestFile,   \* index.json: [exists, entries]
    blobs,          \* the spec files of the cache directory: filename -> cachedData
    emptyEntries,   \* EMPTY_MANIFEST.entries, the object every {...EMPTY_MANIFEST} shares
    ret,            \* what the last cache call returned or threw
    lastSet,        \* the last setCache call, while no other write followed it
    vs,             \* one validateSpec call: its argument and what it gave
    fos,            \* one fetchOpenAPISpec call: its locals and the requests it made
    inv,            \* one run of a command handler: its arguments, locals and position
    pg,             \* one rendered-page extraction: the page loaded and what came of it
    urlCacheFile,   \* apitracker-urls.json, the discovery cache: [exists, entries]
    disc,           \* one lookupProvider call: its arguments, steps and outcome
    br,             \* the browser module: browserInstance, activePages, the browsers
                    \* and pages that exist, and the calls in flight
    sc              \* setCache invocations in flight, each with its locals

cacheVars == <<now, manifestFile, blobs, emptyEntries, ret, lastSet>>
vars == <<now, manifestFile, blobs, emptyEntries, ret, lastSet, vs, fos, inv, pg,
          urlCacheFile, disc, br, sc>>
extVars == <<br, sc>>
discVars == <<pg, urlCacheFile, disc, extVars>>
notCache == <<vs, fos, inv, discVars>>

NULL == "null"
NONE == [op |-> "none"]
NoTime == 0 - 1     \* a null timestamp or ttl

\* No url-cache.json yet, no page extraction and no provider lookup made.
NoUrlCache == [exists |-> FALSE, entries |-> <<>>]
ExtFresh == br = NONE /\ sc = NONE
DiscFresh == pg = NONE /\ urlCacheFile = NoUrlCache /\ disc = NONE /\ ExtFresh

\* ------------------------------------------------------------------ bounds
MaxClock == 2
KeyBits == 12
MaxOps == 3         \* operation elements on a rendered page
MaxLinks == 3       \* links on a search results page
MaxBrowsers == 2    \* browser processes launched in one run
MaxPages == 2       \* pages opened in one run

\* ------------------------------------------------------------------ strings
Blank == " "

LowerTok(t) ==
    CASE t = "HTTPS://" -> "https://"
      [] t = "H.IO"     -> "h.io"
      [] t = "/OpenAPI" -> "/openapi"
      [] t = ".JSON"    -> ".json"
      [] t = "STRIPE"   -> "stripe"
      [] OTHER          -> t

toLowerCase(s) == [i \in DOMAIN s |-> LowerTok(s[i])]

RECURSIVE trimStart(_)
trimStart(s) == IF s # <<>> /\ Head(s) = Blank THEN trimStart(Tail(s)) ELSE s

RECURSIVE trimEnd(_)
trimEnd(s) ==
    IF s # <<>> /\ s[Len(s)] = Blank THEN trimEnd(SubSeq(s, 1, Len(s) - 1)) ELSE s

trim(s) == trimEnd(trimStart(s))

TokCode(t) ==
    CASE t = "https://" -> 3
      [] t = "HTTPS://" -> 5
      [] t = "h.io"     -> 7
      [] t = "H.IO"     -> 11
      [] t = "/openapi" -> 13
      [] t = "/OpenAPI" -> 17
      [] t = ".json"    -> 19
      [] t = ".JSON"    -> 23
      [] t = "/docs"    -> 29
      [] t = Blank      -> 31
      [] t = "/api-reference" -> 41
      [] OTHER          -> 37

RECURSIVE Pow2(_)
Pow2(n) == IF n = 0 THEN 1 ELSE 2 * Pow2(n - 1)

\* A fixed-width digest of a token sequence (stands for sha256 cut to 16 hex digits).
RECURSIVE Digest(_, _)
Digest(s, h) ==
    IF s = <<>> THEN h ELSE Digest(Tail(s), (h * 31 + TokCode(Head(s))) % Pow2(KeyBits))

generateCacheKeyNoLower(url) == Digest(trim(url), 7)

generateCacheKey(url) == Digest(toLowerCase(trim(url)), 7)

FileName(key) == <<key, ".json">>

\* ------------------------------------------------------------------ documents
\* A parsed value: what JSON.parse / yaml.load gave. Of an object only the six
\* fields the code reads are kept; a field is a token standing for its value.
ABSENT == "absent"      \* the field is missing (undefined)
FALSY == ""             \* the field is present with a falsy value (null, "", 0)

Doc(o, s, i, p, w, c) ==
    [openapi |-> o, swagger |-> s, info |-> i, paths |-> p, webhooks |-> w, components |-> c]

EmptyDoc == Doc(ABSENT, ABSENT, ABSENT, ABSENT, ABSENT, ABSENT)

Object(d) == [type |-> "object", doc |-> d]
Array == [type |-> "array", doc |-> EmptyDoc]
Scalar == [type |-> "scalar", doc |-> EmptyDoc]
Null == [type |-> "null", doc |-> EmptyDoc]

PetStore3 == Doc("3.0.0", ABSENT, "obj", "obj", ABSENT, ABSENT)
PetStore2 == Doc(ABSENT, "2.0", "obj", "obj", ABSENT, ABSENT)
\* {openapi: "2.0", info, paths}: no swagger field.
Mislabeled == Doc("2.0", ABSENT, "obj", "obj", ABSENT, ABSENT)
\* {openapi: 3.1 (a number), swagger: "2.0", info, paths}
NumberedSwagger == Doc("num:3.1", "2.0", "obj", "obj", ABSENT, ABSENT)

Truthy(v) == v \notin {ABSENT, FALSY}

IsString(v) == v \notin {ABSENT, "num:3.1", "num:2"}

startsWith3(v) == v \in {"3.0.0", "3.1.0"}

\* validateSpec of openapi.js: ok, or the InvalidSpecError it throws.
Invalid(reason) == [ok |-> FALSE, type |-> "", version |-> "", reason |-> reason]

Valid(type, version) == [ok |-> TRUE, type |-> type, version |-> version, reason |-> ""]

validateSpecNoPaths(v) ==
    IF v.type \notin {"object", "array"}
    THEN Invalid("Spec must be an object")
    ELSE IF Truthy(v.doc.openapi) /\ IsString(v.doc.openapi) /\ startsWith3(v.doc.openapi)
    THEN IF ~Truthy(v.doc.info) THEN Invalid("Missing required info field")
         ELSE Valid("openapi", v.doc.openapi)
    ELSE IF Truthy(v.doc.swagger) /\ v.doc.swagger = "2.0"
    THEN IF ~Truthy(v.doc.info) \/ ~Truthy(v.doc.paths) THEN Invalid("Missing info or paths")
         ELSE Valid("swagger", v.doc.swagger)
    ELSE Invalid("Not a valid OpenAPI 3.x or Swagger 2.0 specification")

validateSpec(v) ==
    IF v.type \notin {"object", "array"}
    THEN Invalid("Spec must be an object")
    ELSE IF Truthy(v.doc.openapi) /\ IsString(v.doc.openapi) /\ startsWith3(v.doc.openapi)
    THEN IF ~Truthy(v.doc.info)
         THEN Invalid("Missing required info field")
         ELSE IF ~Truthy(v.doc.paths) /\ ~Truthy(v.doc.webhooks) /\ ~Truthy(v.doc.components)
         THEN Invalid("Missing paths, webhooks, or components")
         ELSE Valid("openapi", v.doc.openapi)
    ELSE IF Truthy(v.doc.swagger) /\ v.doc.swagger = "2.0"
    THEN IF ~Truthy(v.doc.info)
         THEN Invalid("Missing required info field")
         ELSE IF ~Truthy(v.doc.paths)
         THEN Invalid("Missing required paths field")
         ELSE Valid("swagger", v.doc.swagger)
    ELSE Invalid("Not a valid OpenAPI 3.x or Swagger 2.0 specification")

\* normalizeSpec of cache.js. spec.openapi.startsWith is a TypeError on a truthy
\* openapi that is not a string.
normalizeSpec(spec) ==
    IF Truthy(spec.openapi) /\ ~IsString(spec.openapi)
    THEN [type |-> "TypeError", specVersion |-> NULL]
    ELSE IF Truthy(spec.openapi) /\ startsWith3(spec.openapi)
    THEN [type |-> "openapi", specVersion |-> spec.openapi]
    ELSE IF Truthy(spec.swagger) /\ spec.swagger = "2.0"
    THEN [type |-> "swagger", specVersion |-> spec.swagger]
    ELSE [type |-> "unknown", specVersion |-> NULL]

\* ------------------------------------------------------------------ cache files
EMPTY_MANIFEST == [exists |-> FALSE, entries |-> <<>>]

Put(f, k, v) == [x \in DOMAIN f \cup {k} |-> IF x = k THEN v ELSE f[x]]

Drop(f, k) == [x \in DOMAIN f \ {k} |-> f[x]]

\* readManifest: the parsed file, or a copy of EMPTY_MANIFEST whose entries
\* object is the shared one.
readManifest ==
    IF manifestFile.exists
    THEN [entries |-> manifestFile.entries, shared |-> FALSE]
    ELSE [entries |-> emptyEntries, shared |-> TRUE]

isExpiredLax(entry, clock) ==
    IF entry.expiresAt = NoTime THEN FALSE ELSE entry.expiresAt <= clock

isExpired(entry, clock) ==
    IF entry.expiresAt = NoTime THEN FALSE ELSE entry.expiresAt < clock

\* ttl ? new Date(now.getTime() + ttl).toISOString() : null
ExpiresAt(ttl, clock) == IF ttl = NoTime \/ ttl = 0 THEN NoTime ELSE clock + ttl

\* ------------------------------------------------------------------ cache inputs
U1 == <<"https://", "h.io", "/openapi", ".json">>
U1x == <<Blank, "HTTPS://", "H.IO", "/OpenAPI", ".JSON", Blank>>
U2 == <<"https://", "h.io", "/docs">>

CacheUrls == {U1, U1x, U2}
\* The setCache calls the model makes: <<url, spec, ttl>>.
CacheInputs ==
    {<<U1, PetStore3, NoTime>>, <<U1, PetStore3, 0>>, <<U1, PetStore3, 1>>,
     <<U1, PetStore2, 1>>, <<U1x, PetStore2, 1>>, <<U1x, PetStore3, 0>>,
     <<U2, PetStore2, NoTime>>, <<U2, PetStore2, 1>>}

\* ------------------------------------------------------------------ cache.js
CachedData(url, spec, ttl, clock) ==
    [metadata |-> [url |-> url, cachedAt |-> clock, expiresAt |-> ExpiresAt(ttl, clock),
                   specType |-> normalizeSpec(spec).type,
                   specVersion |-> normalizeSpec(spec).specVersion],
     spec |-> spec]

ManifestEntry(url, spec, ttl, clock) ==
    [url |-> url, filename |-> FileName(generateCacheKey(url)), cachedAt |-> clock,
     expiresAt |-> ExpiresAt(ttl, clock), type |-> normalizeSpec(spec).type]

\* The manifest and blob files and the shared entries object after setCache.
SetCacheFiles(url, spec, ttl) ==
    LET key == generateCacheKey(url)
        m == readManifest
        entries == Put(m.entries, key, ManifestEntry(url, spec, ttl, now))
    IN  /\ blobs' = Put(blobs, FileName(key), CachedData(url, spec, ttl, now))
        /\ manifestFile' = [exists |-> TRUE, entries |-> entries]
        /\ emptyEntries' = IF m.shared THEN entries ELSE emptyEntries

\* What getCached(url) returns or throws at the current clock.
getCachedBlobIOError(url) ==
    LET key == generateCacheKey(url)
        m == readManifest
    IN  IF key \notin DOMAIN m.entries
        THEN [kind |-> "CacheNotFoundError", data |-> {}]
        ELSE IF isExpired(m.entries[key], now)
        THEN [kind |-> "CacheExpiredError", data |-> {}]
        ELSE IF m.entries[key].filename \notin DOMAIN blobs
        THEN [kind |-> "CacheIOError", data |-> {}]
        ELSE [kind |-> "ok", data |-> {blobs[m.entries[key].filename]}]

getCached(url) ==
    LET key == generateCacheKey(url)
        m == readManifest
    IN  IF key \notin DOMAIN m.entries
        THEN [kind |-> "CacheNotFoundError", data |-> {}]
        ELSE IF isExpired(m.entries[key], now)
        THEN [kind |-> "CacheExpiredError", data |-> {}]
        ELSE IF m.entries[key].filename \notin DOMAIN blobs
        THEN [kind |-> "CacheNotFoundError", data |-> {}]
        ELSE [kind |-> "ok", data |-> {blobs[m.entries[key].filename]}]

\* The manifest names a blob file for url that does not exist.
MissingBlob(url) ==
    LET key == generateCacheKey(url)
        m == readManifest
    IN  key \in DOMAIN m.entries /\ m.entries[key].filename \notin DOMAIN blobs

\* The spec of a getCached return.
SpecOf(r) == {d.spec : d \in r.data}

SetCache(url, spec, ttl) ==
    /\ IF normalizeSpec(spec).type = "TypeError"
       THEN /\ ret' = [op |-> "setCache", url |-> url, kind |-> "TypeError", data |-> {},
                       cleared |-> 0]
            /\ UNCHANGED <<manifestFile, blobs, emptyEntries, lastSet>>
       ELSE /\ SetCacheFiles(url, spec, ttl)
            /\ ret' = [op |-> "setCache", url |-> url, kind |-> "ok", data |-> {},
                       cleared |-> 0]
            /\ lastSet' = [op |-> "setCache", url |-> url, spec |-> spec, ttl |-> ttl,
                           at |-> now]
    /\ UNCHANGED <<now, notCache>>

GetCached(url) ==
    /\ ret' = [op |-> "getCached", url |-> url, kind |-> getCached(url).kind,
               data |-> getCached(url).data, cleared |-> 0]
    /\ UNCHANGED <<now, manifestFile, blobs, emptyEntries, lastSet, notCache>>

\* What listCache({includeExpired, checkFiles}) returns at the current clock:
\* the manifest entries, each with its isExpired.
listCache(includeExpired, checkFiles) ==
    LET m == readManifest
        kept == {k \in DOMAIN m.entries :
                    /\ includeExpired \/ ~isExpired(m.entries[k], now)
                    /\ checkFiles => m.entries[k].filename \in DOMAIN blobs}
    IN  {[entry |-> m.entries[k], isExpired |-> isExpired(m.entries[k], now)] : k \in kept}

ListCache(includeExpired, checkFiles) ==
    /\ ret' = [op |-> "listCache", url |-> <<>>, kind |-> "ok",
               data |-> listCache(includeExpired, checkFiles), cleared |-> 0,
               includeExpired |-> includeExpired, checkFiles |-> checkFiles]
    /\ UNCHANGED <<now, manifestFile, blobs, emptyEntries, lastSet, notCache>>

ClearCacheUrl(url) ==
    LET key == generateCacheKey(url)
        m == readManifest
    IN  IF key \notin DOMAIN m.entries
        THEN /\ ret' = [op |-> "clearCache", url |-> url, kind |-> "CacheNotFoundError",
                        data |-> {}, cleared |-> 0]
             /\ UNCHANGED <<now, manifestFile, blobs, emptyEntries, lastSet, notCache>>
        ELSE /\ blobs' = Drop(blobs, m.entries[key].filename)
             /\ manifestFile' = [exists |-> TRUE, entries |-> Drop(m.entries, key)]
             /\ emptyEntries' = IF m.shared THEN Drop(m.entries, key) ELSE emptyEntries
             /\ ret' = [op |-> "clearCache", url |-> url, kind |-> "ok", data |-> {},
                        cleared |-> 1]
             /\ lastSet' = NONE
             /\ UNCHANGED <<now, notCache>>

ClearCacheAll ==
    LET m == readManifest
        files == {m.entries[k].filename : k \in DOMAIN m.entries}
    IN  /\ blobs' = [f \in DOMAIN blobs \ files |-> blobs[f]]
        /\ manifestFile' = [exists |-> TRUE, entries |-> emptyEntries]
        /\ ret' = [op |-> "clearCache", url |-> <<>>, kind |-> "ok", data |-> {},
                   cleared |-> Cardinality(DOMAIN m.entries)]
        /\ lastSet' = NONE
        /\ UNCHANGED <<now, emptyEntries, notCache>>

\* clearCache(url) in another process, killed after the unlink and before
\* writeManifest: the blob is gone and the manifest still names it.
ClearCacheKilled(url) ==
    LET key == generateCacheKey(url)
    IN  /\ manifestFile.exists
        /\ key \in DOMAIN manifestFile.entries
        /\ manifestFile.entries[key].filename \in DOMAIN blobs
        /\ blobs' = Drop(blobs, manifestFile.entries[key].filename)
        /\ UNCHANGED <<now, manifestFile, emptyEntries, ret, lastSet, notCache>>

\* A new process: the module is loaded again, with a fresh EMPTY_MANIFEST.
Restart ==
    /\ emptyEntries # <<>>
    /\ emptyEntries' = <<>>
    /\ ret' = NONE
    /\ UNCHANGED <<now, manifestFile, blobs, lastSet, notCache>>

Tick ==
    /\ now < MaxClock
    /\ now' = now + 1
    /\ ret' = NONE
    /\ UNCHANGED <<manifestFile, blobs, emptyEntries, lastSet, notCache>>

\* A fresh cache directory, in a fresh process.
CacheFresh ==
    /\ now = 0
    /\ manifestFile = EMPTY_MANIFEST
    /\ blobs = <<>>
    /\ emptyEntries = <<>>
    /\ ret = NONE
    /\ lastSet = NONE

CacheInit == CacheFresh /\ DiscFresh /\ vs = NONE /\ fos = NONE /\ inv = NONE

CacheNext ==
    \/ \E in \in CacheInputs : SetCache(in[1], in[2], in[3])
    \/ \E u \in CacheUrls : GetCached(u)
    \/ \E u \in CacheUrls : ClearCacheUrl(u)
    \/ ClearCacheAll
    \/ Restart
    \/ Tick

SpecCache == CacheInit /\ [][CacheNext]_vars

\* The cache read by getCached and listCache between writes.
ListInputs == {<<U1, PetStore3, NoTime>>, <<U1, PetStore3, 1>>, <<U2, PetStore2, 1>>}

ListNext ==
    \/ \E in \in ListInputs : SetCache(in[1], in[2], in[3])
    \/ \E u \in {U1, U2} : GetCached(u)
    \/ \E includeExpired, checkFiles \in BOOLEAN : ListCache(includeExpired, checkFiles)
    \/ \E u \in {U1, U2} : ClearCacheUrl(u)
    \/ ClearCacheAll
    \/ Tick

SpecList == CacheInit /\ [][ListNext]_vars

\* ------------------------------------------------------------------ extractors/openapi.js
COMMON_SPEC_PATHS ==
    << <<"/openapi", ".json">>, <<"/openapi", ".yaml">>, <<"/openapi", ".yml">>,
       <<"/swagger", ".json">>, <<"/swagger", ".yaml">>, <<"/swagger", ".yml">>,
       <<"/api-docs">>, <<"/api-docs", ".json">>, <<"/api-docs", ".yaml">>,
       <<"/api-docs", ".yml">>,
       <<"/v2", "/api-docs">>, <<"/v3", "/api-docs">>,
       <<"/docs", "/openapi", ".json">>, <<"/docs", "/swagger", ".json">>,
       <<"/docs", "/openapi", ".yaml">>, <<"/docs", "/swagger", ".yaml">>,
       <<"/api", "/openapi", ".json">>, <<"/api", "/swagger", ".json">>,
       <<"/spec", "/openapi", ".json">>,
       <<"/swagger", "/v2", "/api-docs">>, <<"/swagger", "/v3", "/api-docs">> >>

endsWith(s, t) == s # <<>> /\ s[Len(s)] = t

startsWith(s, t) == s # <<>> /\ s[1] = t

\* Which tokens contain a needle as a substring.
TokIncludes(t, needle) ==
    CASE needle = "/openapi"  -> t = "/openapi"
      [] needle = "openapi"   -> t \in {"/openapi", "openapi.h.io"}
      [] needle = "/swagger"  -> t = "/swagger"
      [] needle = "swagger"   -> t = "/swagger"
      [] needle = "/api-docs" -> t = "/api-docs"
      [] OTHER                -> FALSE

includes(s, needle) == \E i \in DOMAIN s : TokIncludes(s[i], needle)

isDirectSpecUrl(url) ==
    LET lower == toLowerCase(url)
    IN  \/ endsWith(lower, ".json")
        \/ endsWith(lower, ".yaml")
        \/ endsWith(lower, ".yml")
        \/ includes(lower, "/api-docs")
        \/ includes(lower, "/openapi")
        \/ includes(lower, "/swagger")

\* A response body: does the trimmed text start with "{", and what JSON.parse
\* and yaml.load make of it.
Parsed(v) == [ok |-> TRUE, value |-> v]
Unparsable == [ok |-> FALSE, value |-> Null]

Body(brace, json, yaml) == [brace |-> brace, json |-> json, yaml |-> yaml]

JsonText(d) == Body(TRUE, Parsed(Object(d)), Parsed(Object(d)))
YamlText(d) == Body(FALSE, Unparsable, Parsed(Object(d)))
YamlFlowText(d) == Body(TRUE, Unparsable, Parsed(Object(d)))
BrokenJsonText == Body(TRUE, Unparsable, Unparsable)
HtmlText == Body(FALSE, Unparsable, Parsed(Scalar))
ScalarText == Body(FALSE, Parsed(Scalar), Parsed(Scalar))
ArrayText == Body(FALSE, Parsed(Array), Parsed(Array))
NoBody == Body(FALSE, Unparsable, Unparsable)

ParseFail(tried) ==
    [ok |-> FALSE, value |-> Null, format |-> "", tried |-> tried]

ParseOk(v, format, tried) ==
    [ok |-> TRUE, value |-> v, format |-> format, tried |-> tried]

yamlLoad(body, tried) ==
    IF body.yaml.ok /\ body.yaml.value.type \in {"object", "array"}
    THEN ParseOk(body.yaml.value, "yaml", tried \cup {"yaml"})
    ELSE ParseFail(tried \cup {"yaml"})

parseSpecContentYamlFallback(body, url) ==
    IF endsWith(toLowerCase(url), ".json") \/ body.brace
    THEN IF body.json.ok
         THEN ParseOk(body.json.value, "json", {"json"})
         ELSE yamlLoad(body, {"json"})
    ELSE yamlLoad(body, {})

\* parseSpecContent: the parsed value and format, or ParseError; tried is the
\* parsers that ran.
parseSpecContent(body, url) ==
    IF endsWith(toLowerCase(url), ".json") \/ body.brace
    THEN IF body.json.ok
         THEN ParseOk(body.json.value, "json", {"json"})
         ELSE IF endsWith(toLowerCase(url), ".json")
         THEN ParseFail({"json"})
         ELSE yamlLoad(body, {"json"})
    ELSE yamlLoad(body, {})

Response(net, status, html, body) ==
    [net |-> net, status |-> status, html |-> html, body |-> body]

\* One tryFetchSpec attempt: stage is where it ended, thrown the error that
\* leaves it ("" when it returns), found whether it returns a spec.
Attempt(stage, thrown, found, parse, info) ==
    [stage |-> stage, thrown |-> thrown, found |-> found, spec |-> parse.value,
     format |-> parse.format, tried |-> parse.tried, parsed |-> parse.ok, specInfo |-> info]

NotParsed == ParseFail({})

\* The try block of tryFetchSpec.
tryFetchSpecTry(url, r) ==
    IF r.net = "abort" THEN Attempt("fetch", "AbortError", FALSE, NotParsed, Invalid(""))
    ELSE IF r.net = "error" THEN Attempt("fetch", "TypeError", FALSE, NotParsed, Invalid(""))
    ELSE IF r.status < 200 \/ r.status > 299
    THEN Attempt("status", "", FALSE, NotParsed, Invalid(""))
    ELSE IF r.net = "body-error"
    THEN Attempt("text", "TypeError", FALSE, NotParsed, Invalid(""))
    ELSE IF r.html /\ ~r.body.brace
    THEN Attempt("html", "", FALSE, NotParsed, Invalid(""))
    ELSE LET p == parseSpecContent(r.body, url)
         IN  IF ~p.ok THEN Attempt("parse", "ParseError", FALSE, p, Invalid(""))
             ELSE IF ~validateSpec(p.value).ok
             THEN Attempt("validate", "InvalidSpecError", FALSE, p, validateSpec(p.value))
             ELSE Attempt("ok", "", TRUE, p, validateSpec(p.value))

\* The catch block of tryFetchSpec: every error becomes a null return.
tryFetchSpecCatchRethrow(a) ==
    IF a.thrown \in {"ParseError", "InvalidSpecError"} THEN a
    ELSE [a EXCEPT !.thrown = "", !.found = FALSE]

tryFetchSpecCatch(a) == [a EXCEPT !.thrown = "", !.found = FALSE]

tryFetchSpec(url, r) ==
    LET a == tryFetchSpecTry(url, r)
    IN  IF a.thrown = "" THEN a ELSE tryFetchSpecCatch(a)

RECURSIVE stripTrailingSlashes(_)
stripTrailingSlashes(s) ==
    IF endsWith(s, "/") THEN stripTrailingSlashes(SubSeq(s, 1, Len(s) - 1)) ELSE s

\* fetchOpenAPISpec: url.trim(), the scheme added when missing, trailing slashes cut.
normalizeUrl(url) ==
    LET t == trim(url)
    IN  stripTrailingSlashes(
            IF ~startsWith(t, "http://") /\ ~startsWith(t, "https://")
            THEN <<"https://">> \o t ELSE t)

\* protocol//host of a normalized URL.
getBaseUrl(url) == SubSeq(url, 1, 2)

probeBase(normalizedUrl) ==
    IF isDirectSpecUrl(normalizedUrl) THEN getBaseUrl(normalizedUrl) ELSE normalizedUrl

ProbeUrl(normalizedUrl, i) == probeBase(normalizedUrl) \o COMMON_SPEC_PATHS[i]

NoAttempt == Attempt("none", "", FALSE, NotParsed, Invalid(""))

NoResult == {}

FetchResult(a, sourceUrl) ==
    IF a.found
    THEN {[spec |-> a.spec, format |-> a.format, specInfo |-> a.specInfo,
           sourceUrl |-> sourceUrl]}
    ELSE NoResult

firstStepAlwaysDirect(normalizedUrl, probeCommonPaths) == "direct"

\* Where fetchOpenAPISpec goes after normalizing the URL.
firstStep(normalizedUrl, probeCommonPaths) ==
    IF isDirectSpecUrl(normalizedUrl) THEN "direct"
    ELSE IF probeCommonPaths THEN "probe" ELSE "return"

\* await fetchOpenAPISpec(url, {probeCommonPaths}) is entered.
FetchCall(url, probeCommonPaths) ==
    /\ fos.op \in {"none", "returned", "threw"}
    /\ fos' = [op |-> "fetchOpenAPISpec", url |-> url,
               normalizedUrl |-> normalizeUrl(url),
               probeCommonPaths |-> probeCommonPaths,
               pc |-> firstStep(normalizeUrl(url), probeCommonPaths),
               result |-> NoResult,
               idx |-> 1, requests |-> <<>>, last |-> NoAttempt, lastStatus |-> 0,
               lastWas |-> "none", prior404 |-> TRUE, all404 |-> TRUE,
               sourceUrl |-> <<>>]
    /\ UNCHANGED <<cacheVars, vs, inv, discVars>>

\* The direct attempt on the normalized URL, answered by r.
FetchDirect(r) ==
    LET a == tryFetchSpec(fos.normalizedUrl, r)
    IN  /\ fos.op = "fetchOpenAPISpec" /\ fos.pc = "direct"
        /\ fos' = [fos EXCEPT
                !.requests = Append(@, fos.normalizedUrl),
                !.last = a, !.lastWas = "direct",
                !.lastStatus = IF r.net = "ok" THEN r.status ELSE 0,
                !.sourceUrl = IF a.found THEN fos.normalizedUrl ELSE @,
                !.op = IF a.thrown # "" THEN "threw" ELSE @,
                !.pc = IF a.thrown # "" THEN "thrown"
                       ELSE IF a.found THEN "return"
                       ELSE IF fos.probeCommonPaths THEN "probe" ELSE "return"]
        /\ UNCHANGED <<cacheVars, vs, inv, discVars>>

\* One iteration of the probing loop, answered by r.
FetchProbe(r) ==
    LET probeUrl == ProbeUrl(fos.normalizedUrl, fos.idx)
        a == tryFetchSpec(probeUrl, r)
    IN  /\ fos.op = "fetchOpenAPISpec" /\ fos.pc = "probe"
        /\ fos' = [fos EXCEPT
                !.requests = Append(@, probeUrl),
                !.last = a, !.lastWas = "probe",
                !.lastStatus = IF r.net = "ok" THEN r.status ELSE 0,
                !.prior404 = fos.all404,
                !.all404 = fos.all404 /\ r.net = "ok" /\ r.status = 404,
                !.sourceUrl = IF a.found THEN probeUrl ELSE @,
                !.idx = IF a.found \/ a.thrown # "" THEN @ ELSE @ + 1,
                !.op = IF a.thrown # "" THEN "threw" ELSE @,
                !.pc = IF a.thrown # "" THEN "thrown"
                       ELSE IF a.found \/ fos.idx = Len(COMMON_SPEC_PATHS)
                       THEN "return" ELSE "probe"]
        /\ UNCHANGED <<cacheVars, vs, inv, discVars>>

\* fetchOpenAPISpec returns: the last attempt's spec, or null.
FetchReturn ==
    /\ fos.op = "fetchOpenAPISpec" /\ fos.pc = "return"
    /\ fos' = [fos EXCEPT !.op = "returned",
                           !.result = FetchResult(fos.last, fos.sourceUrl)]
    /\ UNCHANGED <<cacheVars, vs, inv, discVars>>

FetchTargets ==
    {<<"https://", "h.io", "/openapi", ".json">>,
     <<"https://", "h.io", "/openapi", ".JSON">>,
     <<"https://", "h.io", "/spec", ".yaml">>,
     <<"https://", "h.io", "/v2", "/api-docs">>,
     <<"https://", "h.io", "/docs">>,
     <<Blank, "https://", "h.io", "/docs", "/", "/">>,
     <<"https://", "openapi.h.io">>,
     <<"h.io">>}

Responses ==
    {Response("abort", 0, FALSE, NoBody),
     Response("error", 0, FALSE, NoBody),
     Response("body-error", 200, FALSE, NoBody),
     Response("ok", 404, TRUE, HtmlText),
     Response("ok", 500, FALSE, JsonText(PetStore3)),
     Response("ok", 200, TRUE, HtmlText),
     Response("ok", 200, TRUE, JsonText(PetStore3)),
     Response("ok", 200, FALSE, JsonText(PetStore3)),
     Response("ok", 200, FALSE, YamlText(PetStore2)),
     Response("ok", 200, FALSE, YamlFlowText(PetStore3)),
     Response("ok", 200, FALSE, JsonText(Mislabeled)),
     Response("ok", 200, FALSE, BrokenJsonText),
     Response("ok", 200, FALSE, ScalarText),
     Response("ok", 200, FALSE, ArrayText)}

ProbeInit == CacheFresh /\ DiscFresh /\ vs = NONE /\ fos = NONE /\ inv = NONE

ProbeNext ==
    \/ \E u \in FetchTargets, p \in BOOLEAN : FetchCall(u, p)
    \/ \E r \in Responses : FetchDirect(r)
    \/ \E r \in Responses : FetchProbe(r)
    \/ FetchReturn

SpecProbe == ProbeInit /\ [][ProbeNext]_vars

\* ------------------------------------------------------------------ tryFetchSpec and its timer
\* One tryFetchSpec call, await by await: the timer set before fetch, the
\* response (its headers), the body. r is what the server will send, if it
\* sends; a request may also stay without an answer.
TfsCall(url, r) ==
    /\ IF fos.op = "tryFetchSpec" THEN fos.pc = "returned" ELSE TRUE
    /\ fos' = [op |-> "tryFetchSpec", url |-> url, r |-> r, pc |-> "fetch",
               timer |-> "armed", last |-> NoAttempt]
    /\ UNCHANGED <<cacheVars, vs, inv, discVars>>

\* await fetch(url, {signal}) resolves with the response: clearTimeout, then
\* return null unless response.ok, else response.text() is awaited.
TfsResponse ==
    /\ fos.op = "tryFetchSpec" /\ fos.pc = "fetch"
    /\ fos.r.net \in {"ok", "body-error"}
    /\ fos' = IF fos.r.status < 200 \/ fos.r.status > 299
              THEN [fos EXCEPT !.timer = "cleared", !.pc = "returned",
                               !.last = tryFetchSpec(fos.url, fos.r)]
              ELSE [fos EXCEPT !.timer = "cleared", !.pc = "text"]
    /\ UNCHANGED <<cacheVars, vs, inv, discVars>>

\* await fetch rejects with a network error: the catch block, clearTimeout.
TfsFetchFailed ==
    /\ fos.op = "tryFetchSpec" /\ fos.pc = "fetch"
    /\ fos.r.net = "error"
    /\ fos' = [fos EXCEPT !.timer = "cleared", !.pc = "returned",
                          !.last = tryFetchSpec(fos.url, fos.r)]
    /\ UNCHANGED <<cacheVars, vs, inv, discVars>>

\* The timer fires: controller.abort(); the pending fetch or body read
\* rejects with AbortError, and the catch block returns null.
TfsTimeout ==
    /\ fos.op = "tryFetchSpec" /\ fos.pc \in {"fetch", "text"}
    /\ fos.timer = "armed"
    /\ fos' = [fos EXCEPT !.timer = "fired", !.pc = "returned",
                          !.last = tryFetchSpec(fos.url, [fos.r EXCEPT !.net = "abort"])]
    /\ UNCHANGED <<cacheVars, vs, inv, discVars>>

\* await response.text() settles: the body is parsed and validated, or the
\* read fails and the catch block returns null.
TfsText ==
    /\ fos.op = "tryFetchSpec" /\ fos.pc = "text"
    /\ fos' = [fos EXCEPT !.pc = "returned", !.last = tryFetchSpec(fos.url, fos.r)]
    /\ UNCHANGED <<cacheVars, vs, inv, discVars>>

TimerNext ==
    \/ \E u \in FetchTargets, r \in Responses : TfsCall(u, r)
    \/ TfsResponse
    \/ TfsFetchFailed
    \/ TfsTimeout
    \/ TfsText

SpecTimer == ProbeInit /\ [][TimerNext]_vars

\* ------------------------------------------------------------------ bin/api-docs.js
\* ttl: 24 * 60 * 60 * 1000; one tick of the clock is 24 hours.
TTL_24H == 1

isSpecUrl(url) ==
    LET lower == toLowerCase(url)
    IN  \/ endsWith(lower, ".json")
        \/ endsWith(lower, ".yaml")
        \/ endsWith(lower, ".yml")
        \/ includes(lower, "openapi")
        \/ includes(lower, "swagger")

isUrl(query) == startsWith(query, "http://") \/ startsWith(query, "https://")

Provider == <<"acme">>
ApiRef == <<"https://", "inv.io", "/api-reference">>
NoUrl == <<>>

\* The first statement a handler reaches: the cache lookup unless --no-cache
\* (fetch) or --force (endpoints), the provider lookup for a name.
afterCache(query) == IF isSpecUrl(query) THEN "openapi" ELSE "scrape"

entryPc(cmd, query, force, noCache) ==
    IF isUrl(query)
    THEN IF (cmd = "handleFetch" /\ noCache) \/ (cmd = "handleEndpoints" /\ force)
         THEN afterCache(query) ELSE "cache"
    ELSE "lookup"

\* The URL the strategies work on: the query, or the provider's docs URL.
Target == IF isUrl(inv.query) THEN inv.query ELSE inv.docsUrl

Running(pc) == inv.op \in {"handleFetch", "handleEndpoints"} /\ inv.pc = pc

\* One strategy call in the order made: what it was, on which URL, what it
\* yielded, and whether the cache held an unexpired spec for that URL then.
Called(strategy, yield) ==
    Append(inv.trace, [s |-> strategy, target |-> Target, y |-> yield,
                     cachedOk |-> getCached(Target).kind = "ok"])

Done(out) == [inv EXCEPT !.pc = "done", !.out = out]

\* An error no catch of the handler absorbs: the command fails.
Threw(trace) == [inv EXCEPT !.pc = "done", !.out = "threw", !.trace = trace]

\* A command starts, in a new process.
HandleCall(cmd, query, force, noCache) ==
    /\ IF inv.op = "none" THEN TRUE ELSE inv.pc = "done"
    /\ inv' = [op |-> cmd, query |-> query, force |-> force, noCache |-> noCache,
             pc |-> entryPc(cmd, query, force, noCache), docsUrl |-> NoUrl,
             spec |-> {}, cache |-> "none", trace |-> <<>>, out |-> "",
             wrote |-> FALSE, lookup |-> "", blobMissing |-> FALSE,
             raised |-> "", detail |-> ""]
    /\ emptyEntries' = <<>>
    /\ UNCHANGED <<now, manifestFile, blobs, ret, lastSet, vs, fos, discVars>>

\* await getCached(query): a hit ends handleFetch and gives handleEndpoints its
\* spec; CacheNotFoundError and CacheExpiredError are a miss; any other error
\* leaves the handler.
HandleCache(io) ==
    LET r == getCached(inv.query)
        kind == IF io # "ok" THEN "CacheIOError" ELSE r.kind
        next == IF kind \notin {"ok", "CacheNotFoundError", "CacheExpiredError"}
                THEN [Threw(inv.trace) EXCEPT !.cache = "error"]
                ELSE IF kind = "ok"
                THEN IF inv.op = "handleFetch"
                     THEN [Done("spec") EXCEPT !.cache = "hit", !.spec = SpecOf(r)]
                     ELSE [inv EXCEPT !.cache = "hit", !.spec = SpecOf(r), !.pc = "output"]
                ELSE [inv EXCEPT !.cache = "miss", !.pc = afterCache(inv.query)]
    IN  /\ Running("cache")
        /\ inv' = [next EXCEPT !.lookup = kind,
                               !.blobMissing = io = "ok" /\ MissingBlob(inv.query)]
        /\ UNCHANGED <<cacheVars, vs, fos, discVars>>

\* A strategy gave a spec: setCache(target, spec, {ttl: 24 h}) unless --no-cache,
\* then handleFetch prints it and returns, handleEndpoints goes to its output.
GotSpec(strategy, spec) ==
    LET write == inv.op = "handleFetch" => ~inv.noCache
        trace == Called(strategy, "result")
    IN  IF write /\ normalizeSpec(spec).type = "TypeError"
        THEN /\ inv' = Threw(trace)
             /\ UNCHANGED <<manifestFile, blobs, emptyEntries>>
        ELSE /\ IF write THEN SetCacheFiles(Target, spec, TTL_24H)
                ELSE UNCHANGED <<manifestFile, blobs, emptyEntries>>
             /\ inv' = IF inv.op = "handleFetch"
                     THEN [Done("spec") EXCEPT !.spec = {spec}, !.trace = trace,
                                               !.wrote = write]
                     ELSE [inv EXCEPT !.spec = {spec}, !.trace = trace, !.wrote = write,
                                      !.pc = "output"]

\* What fetchOpenAPISpec hands a handler: null or a validated spec; it never throws.
FetchOutcomes == {NoResult, {PetStore3}, {NumberedSwagger}}

\* await fetchOpenAPISpec(target, {timeout: 15000}), as one step of the handler.
HandleOpenapi(res) ==
    /\ Running("openapi")
    /\ IF res # NoResult
       THEN \E spec \in res : GotSpec("fetchOpenAPISpec", spec)
       ELSE /\ inv' = [inv EXCEPT !.trace = Called("fetchOpenAPISpec", "nothing"),
                                  !.pc = IF isUrl(inv.query) THEN "scrape" ELSE "swagger"]
            /\ UNCHANGED <<manifestFile, blobs, emptyEntries>>
    /\ UNCHANGED <<now, ret, lastSet, vs, fos, discVars>>

ScrapeOutcomes == {"found", "empty", "DocsScraperError", "BrowserError"}

ScrapeYield(y) ==
    CASE y = "found" -> "result"
      [] y \in {"empty", "DocsScraperError"} -> "nothing"
      [] OTHER -> "error"

scrapeNextNoReturn(pc, url, y) ==
    IF y = "BrowserError" THEN "threw"
    ELSE IF url THEN "swagger"
    ELSE IF pc = "scrape" THEN "findRef" ELSE "openapi"

\* Where a handler goes after scrapeEndpoints: endpoints found end it, no
\* endpoints or a DocsScraperError make it fall through, any other error
\* leaves it.
scrapeNext(pc, url, y) ==
    IF y = "BrowserError" THEN "threw"
    ELSE IF y = "found" THEN "done"
    ELSE IF url THEN "swagger"
    ELSE IF pc = "scrape" THEN "findRef" ELSE "openapi"

\* await scrapeEndpoints(target, {timeout: 30000}): on the URL, on the
\* provider's docs URL (scrape) or on its API reference page (scrape2).
HandleScrape(y) ==
    LET next == scrapeNext(inv.pc, isUrl(inv.query), y)
        trace == Called("scrapeEndpoints", ScrapeYield(y))
    IN  /\ Running("scrape") \/ Running("scrape2")
        /\ inv' = IF next = "threw" THEN [Threw(trace) EXCEPT !.raised = y]
                  ELSE IF next = "done" THEN [Done("scraped") EXCEPT !.trace = trace]
                  ELSE [inv EXCEPT !.trace = trace, !.pc = next,
                                   !.raised = IF y = "DocsScraperError" THEN y ELSE ""]
        /\ UNCHANGED <<cacheVars, vs, fos, discVars>>

\* getPage, findApiReferenceUrl(docsUrl, page), page.close(): a reference page
\* other than docsUrl becomes the docs URL and is scraped.
HandleFindRef(page, apiRefUrl) ==
    /\ Running("findRef")
    /\ inv' = IF page # "ok" THEN Threw(inv.trace)
              ELSE IF apiRefUrl # NoUrl /\ apiRefUrl # inv.docsUrl
              THEN [inv EXCEPT !.docsUrl = apiRefUrl, !.pc = "scrape2"]
              ELSE [inv EXCEPT !.pc = "openapi"]
    /\ UNCHANGED <<cacheVars, vs, fos, discVars>>

SwaggerOutcomes ==
    {"result", "null", "AuthenticationRequiredError", "SwaggerUIExtractorError",
     "BrowserError"}

\* What the user is told when extractFromSwaggerUI gave no spec: handleFetch
\* prints "No API documentation found." for null and "No OpenAPI spec found."
\* with the error's message for a SwaggerUIExtractorError; handleEndpoints
\* prints one text for both, by branch.
swaggerFailure(op, url, y) ==
    IF op = "handleFetch"
    THEN IF y = "null" THEN [out |-> "none-found", detail |-> ""]
         ELSE [out |-> "no-spec-found", detail |-> y]
    ELSE [out |-> IF url THEN "none-found" ELSE "could-not-extract", detail |-> ""]

\* await extractFromSwaggerUI(target, {timeout: 30000}), the last strategy.
HandleSwagger(y) ==
    /\ Running("swagger")
    /\ CASE y = "result" -> GotSpec("extractFromSwaggerUI", PetStore3)
         [] y = "BrowserError" ->
                /\ inv' = [Threw(Called("extractFromSwaggerUI", "error"))
                             EXCEPT !.raised = y]
                /\ UNCHANGED <<manifestFile, blobs, emptyEntries>>
         [] OTHER ->
                /\ inv' = [Done(swaggerFailure(inv.op, isUrl(inv.query), y).out)
                             EXCEPT !.trace = Called("extractFromSwaggerUI", "nothing"),
                                    !.raised = IF y = "null" THEN "" ELSE y,
                                    !.detail = swaggerFailure(inv.op, isUrl(inv.query), y).detail]
                /\ UNCHANGED <<manifestFile, blobs, emptyEntries>>
    /\ UNCHANGED <<now, ret, lastSet, vs, fos, discVars>>

LookupOutcomes == {"ok", "ProviderNotFoundError", "DiscoveryFetchError"}

\* await lookupProvider(query, {forceRefresh: force}): handleFetch prints the
\* docs URL, handleEndpoints goes on to extract from it.
HandleLookup(y) ==
    /\ Running("lookup")
    /\ inv' = IF y = "ProviderNotFoundError" THEN Done("provider-not-found")
              ELSE IF y = "DiscoveryFetchError" THEN Done("discovery-failed")
              ELSE IF inv.op = "handleFetch"
              THEN [Done("docs-url") EXCEPT !.docsUrl = U2]
              ELSE [inv EXCEPT !.docsUrl = U2, !.pc = "scrape"]
    /\ UNCHANGED <<cacheVars, vs, fos, discVars>>

\* handleEndpoints prints formatEndpointList(spec).
HandleOutput ==
    /\ Running("output")
    /\ inv' = Done("spec")
    /\ UNCHANGED <<cacheVars, vs, fos, discVars>>

Commands ==
    {<<"handleFetch", U1, FALSE, FALSE>>, <<"handleFetch", U1, FALSE, TRUE>>,
     <<"handleFetch", U2, FALSE, FALSE>>, <<"handleFetch", Provider, FALSE, FALSE>>,
     <<"handleEndpoints", U1, FALSE, FALSE>>, <<"handleEndpoints", U1, TRUE, FALSE>>,
     <<"handleEndpoints", U2, FALSE, FALSE>>, <<"handleEndpoints", Provider, FALSE, FALSE>>}

Init == CacheFresh /\ DiscFresh /\ vs = NONE /\ fos = NONE /\ inv = NONE

Next ==
    \/ \E c \in Commands : HandleCall(c[1], c[2], c[3], c[4])
    \/ \E io \in {"ok", "EIO"} : HandleCache(io)
    \/ \E res \in FetchOutcomes : HandleOpenapi(res)
    \/ \E y \in ScrapeOutcomes : HandleScrape(y)
    \/ \E page \in {"ok", "BrowserLaunchError"}, ref \in {NoUrl, U2, ApiRef} :
            HandleFindRef(page, ref)
    \/ \E y \in SwaggerOutcomes : HandleSwagger(y)
    \/ \E y \in LookupOutcomes : HandleLookup(y)
    \/ HandleOutput
    \/ \E u \in {U1, U2} : ClearCacheKilled(u)
    \/ Tick

Spec == Init /\ [][Next]_vars

\* ------------------------------------------------------------------ rendered pages
\* A loaded page, as far as the extractors look at it:
\*   auth     the authentication-wall signal it shows: a password input, a
\*            form whose action contains "login", sign-in wording in the
\*            title only, sign-in wording in the first h1, or none;
\*   markers  the frameworks whose DOM markers or globals are present;
\*   hasHttpMethods, hasApiPaths  the two generic-pattern matches on the body;
\*   ops      the operation elements (rows, blocks) in document order;
\*   spec     whether the page's application state or traffic holds a valid spec.
AuthSignals == {"password", "loginForm", "title", "h1"}
Frameworks == <<"swagger-ui", "redoc", "scalar">>

Endpoint(method, path, description) ==
    [method |-> method, path |-> path, description |-> description]

Items ==
    {Endpoint("GET", "/pets", "first"), Endpoint("GET", "/pets", "second"),
     Endpoint("POST", "/pets", "create")}

RECURSIVE SeqsUpTo(_, _)
SeqsUpTo(S, n) ==
    IF n = 0 THEN {<<>>}
    ELSE SeqsUpTo(S, n - 1) \cup
         {Append(q, x) : q \in {r \in SeqsUpTo(S, n - 1) : Len(r) = n - 1}, x \in S}

Pages ==
    {pgv \in [auth : AuthSignals \cup {"none"},
              markers : SUBSET {"swagger-ui", "redoc", "scalar"},
              hasHttpMethods : BOOLEAN, hasApiPaths : BOOLEAN,
              ops : SeqsUpTo(Items, MaxOps), spec : BOOLEAN] :
        pgv.ops # <<>> => pgv.hasHttpMethods}

\* The endpoints read from a spec's paths object.
SpecEndpoints == <<Endpoint("GET", "/pets", "first"), Endpoint("POST", "/pets", "create")>>

SameOperation(a, b) == a.method = b.method /\ a.path = b.path

\* const seen = new Set(); ... if (!seen.has(key)) { seen.add(key); endpoints.push(...) }
RECURSIVE pushUnseen(_, _)
pushUnseen(ops, endpoints) ==
    IF ops = <<>> THEN endpoints
    ELSE pushUnseen(Tail(ops),
            IF \E i \in DOMAIN endpoints : SameOperation(endpoints[i], Head(ops))
            THEN endpoints ELSE Append(endpoints, Head(ops)))

\* The DOM layer of extractSwaggerUiEndpoints and extractRedocEndpoints: one
\* entry pushed per operation element.
pushAll(ops) == ops

extractSwaggerUiEndpoints(page) ==
    IF page.spec THEN SpecEndpoints ELSE pushAll(page.ops)

extractRedocEndpoints(page) ==
    IF page.spec THEN SpecEndpoints ELSE pushAll(page.ops)

extractScalarEndpoints(page) ==
    IF page.spec THEN SpecEndpoints ELSE pushUnseen(page.ops, <<>>)

extractGenericEndpoints(page) == pushUnseen(page.ops, <<>>)

extractEndpoints(page, framework) ==
    CASE framework = "swagger-ui" -> extractSwaggerUiEndpoints(page)
      [] framework = "redoc"      -> extractRedocEndpoints(page)
      [] framework = "scalar"     -> extractScalarEndpoints(page)
      [] framework = "generic"    -> extractGenericEndpoints(page)

NoFramework == "null"

detectFrameworkRedocFirst(page) ==
    IF "redoc" \in page.markers THEN "redoc"
    ELSE IF "swagger-ui" \in page.markers THEN "swagger-ui"
    ELSE IF "scalar" \in page.markers THEN "scalar"
    ELSE IF page.hasHttpMethods /\ page.hasApiPaths THEN "generic"
    ELSE NoFramework

detectFramework(page) ==
    IF "swagger-ui" \in page.markers THEN "swagger-ui"
    ELSE IF "redoc" \in page.markers THEN "redoc"
    ELSE IF "scalar" \in page.markers THEN "scalar"
    ELSE IF page.hasHttpMethods /\ page.hasApiPaths THEN "generic"
    ELSE NoFramework

\* What an extraction gave: kind is "ok", "null" or the error thrown; layers
\* the extraction layers that ran.
PageOut(kind, framework, endpoints, layers) ==
    [kind |-> kind, framework |-> framework, endpoints |-> endpoints, layers |-> layers]

\* scrapeEndpoints(url) on a page that loaded.
scrapeEndpoints(page) ==
    LET framework == detectFramework(page)
    IN  IF framework = NoFramework
        THEN PageOut("FrameworkNotDetectedError", NoFramework, <<>>, {})
        ELSE PageOut("ok", framework, extractEndpoints(page, framework), {framework})

\* detectAuthRequired of swagger-ui.js: a login form, or sign-in wording in
\* the body text.
detectAuthRequiredSwaggerUI(page) == page.auth \in {"password", "loginForm", "h1"}

\* detectAuthRequired of redoc.js: a login form, or sign-in wording in the
\* title or the first h1.
detectAuthRequiredRedoc(page) == page.auth \in {"password", "loginForm", "title", "h1"}

SpecLayers == {"state", "network", "scripts"}

extractFromSwaggerUI(page) ==
    IF detectAuthRequiredSwaggerUI(page)
    THEN PageOut("AuthenticationRequiredError", NoFramework, <<>>, {})
    ELSE PageOut(IF page.spec THEN "ok" ELSE "null", "swagger-ui", <<>>, SpecLayers)

extractFromRedoc(page) ==
    IF detectAuthRequiredRedoc(page)
    THEN PageOut("AuthenticationRequiredError", NoFramework, <<>>, {})
    ELSE PageOut(IF page.spec THEN "ok" ELSE "null", "redoc", <<>>, SpecLayers)

ScrapeEndpoints ==
    /\ pg.op = "loaded"
    /\ pg' = [op |-> "scrapeEndpoints", page |-> pg.page, out |-> scrapeEndpoints(pg.page)]
    /\ UNCHANGED <<cacheVars, vs, fos, inv, urlCacheFile, disc, extVars>>

ExtractFromSwaggerUI ==
    /\ pg.op = "loaded"
    /\ pg' = [op |-> "extractFromSwaggerUI", page |-> pg.page,
              out |-> extractFromSwaggerUI(pg.page)]
    /\ UNCHANGED <<cacheVars, vs, fos, inv, urlCacheFile, disc, extVars>>

ExtractFromRedoc ==
    /\ pg.op = "loaded"
    /\ pg' = [op |-> "extractFromRedoc", page |-> pg.page, out |-> extractFromRedoc(pg.page)]
    /\ UNCHANGED <<cacheVars, vs, fos, inv, urlCacheFile, disc, extVars>>

PageInit ==
    /\ CacheFresh /\ vs = NONE /\ fos = NONE /\ inv = NONE
    /\ urlCacheFile = NoUrlCache /\ disc = NONE /\ ExtFresh
    /\ pg \in {[op |-> "loaded", page |-> pgv] : pgv \in Pages}

PageNext == ScrapeEndpoints \/ ExtractFromSwaggerUI \/ ExtractFromRedoc

SpecPage == PageInit /\ [][PageNext]_vars

\* ------------------------------------------------------------------ extractors/apitracker.js
\* What the search surface answers during one searchProvider call:
\*   browser     getPage gives a page, or the browser cannot be launched;
\*   direct      the /a/{query} navigation ends on a provider page (200 and
\*               "/a/" in the URL), on something else, or fails;
\*   directDocs  a documentation link can be extracted from that page;
\*   search      the /search?q= navigation is redirected to a provider page,
\*               lists at least one scored result, lists none, or fails;
\*   resultDocs  a documentation link can be extracted from the page the
\*               search led to.
Web(browser, direct, directDocs, search, resultDocs) ==
    [browser |-> browser, direct |-> direct, directDocs |-> directDocs,
     search |-> search, resultDocs |-> resultDocs]

Searches ==
    {<<"error", FALSE>>, <<"none", FALSE>>, <<"redirect", FALSE>>, <<"redirect", TRUE>>,
     <<"results", FALSE>>, <<"results", TRUE>>}

Webs ==
    {Web("BrowserLaunchError", "error", FALSE, "error", FALSE),
     Web("ok", "error", FALSE, "error", FALSE),
     Web("ok", "page", TRUE, "none", FALSE)}
    \cup {Web("ok", d, FALSE, x[1], x[2]) : d \in {"page", "notfound"}, x \in Searches}

\* The slug of the provider page a search leads to.
ResultSlug(query) == query \o <<"-api">>

\* extractDocsFromApiPage on the page reached by `nav`: the provider is the
\* slug in the page's URL.
extractDocsFromApiPage(query, nav, hasDocs, navs) ==
    IF hasDocs
    THEN [kind |-> "ok", provider |-> IF nav = "direct" THEN query ELSE ResultSlug(query),
          page |-> nav, source |-> "apitracker", navs |-> navs]
    ELSE [kind |-> "DocsUrlNotFoundError", provider |-> <<>>, page |-> nav,
          source |-> "", navs |-> navs]

SearchFailed(kind, navs) ==
    [kind |-> kind, provider |-> <<>>, page |-> "", source |-> "", navs |-> navs]

\* The fall-back of searchProvider: the search URL, then the best result.
searchFallback(query, web, navs) ==
    LET n == Append(navs, "search")
    IN  CASE web.search = "error"    -> SearchFailed("APITrackerSearchError", n)
          [] web.search = "redirect" -> extractDocsFromApiPage(query, "search", web.resultDocs, n)
          [] web.search = "none"     -> SearchFailed("ProviderNotFoundError", n)
          [] OTHER -> extractDocsFromApiPage(query, "result", web.resultDocs,
                                             Append(n, "result"))

\* searchProvider without the direct page's early return.
searchProviderAlwaysSearches(query, web) ==
    LET q == toLowerCase(trim(query))
    IN  IF web.browser # "ok" THEN SearchFailed("APITrackerSearchError", <<>>)
        ELSE IF web.direct = "error" THEN SearchFailed("APITrackerSearchError", <<"direct">>)
        ELSE searchFallback(q, web, <<"direct">>)

searchProvider(query, web) ==
    LET q == toLowerCase(trim(query))
    IN  IF web.browser # "ok" THEN SearchFailed("APITrackerSearchError", <<>>)
        ELSE IF web.direct = "error" THEN SearchFailed("APITrackerSearchError", <<"direct">>)
        ELSE IF web.direct = "page" /\ web.directDocs
        THEN extractDocsFromApiPage(q, "direct", TRUE, <<"direct">>)
        ELSE searchFallback(q, web, <<"direct">>)

\* ------------------------------------------------------------------ discovery.js
URL_CACHE_TTL == 1      \* 7 days, in clock units

Q1 == <<"stripe">>
Q1x == <<Blank, "STRIPE", Blank>>
Q2 == <<"n8n">>
Queries == {Q1, Q1x, Q2, <<Blank>>}

\* readUrlCache: any failure of readFile or JSON.parse gives an empty cache.
readUrlCache(read) ==
    IF read = "ok" /\ urlCacheFile.exists THEN urlCacheFile.entries ELSE <<>>

NoEntry == [provider |-> <<>>, page |-> "", cachedAt |-> NoTime, expiresAt |-> NoTime]

\* getCachedUrl without the expiration test.
getCachedUrlNoExpiry(provider, read) ==
    LET entries == readUrlCache(read)
        key == trim(toLowerCase(provider))
    IN  IF key \in DOMAIN entries THEN entries[key] ELSE NoEntry

getCachedUrl(provider, read) ==
    LET entries == readUrlCache(read)
        key == trim(toLowerCase(provider))
    IN  IF key \notin DOMAIN entries THEN NoEntry
        ELSE IF entries[key].expiresAt < now THEN NoEntry
        ELSE entries[key]

\* The file cacheUrl writes: the entries it could read plus the new one.
cacheUrl(provider, data, read) ==
    [exists |-> TRUE,
     entries |-> Put(readUrlCache(read), trim(toLowerCase(provider)),
                     [provider |-> data.provider, page |-> data.page,
                      cachedAt |-> now, expiresAt |-> now + URL_CACHE_TTL])]

\* The file after a writeUrlCache that threw. writeFile opens the file with
\* flag 'w', which empties it: a failure before the open ("EIO") leaves the
\* file as it was, a failure of the write itself ("ENOSPC") leaves it empty,
\* and readUrlCache reads an empty file as a cache without entries.
writeUrlCacheFailed(write) ==
    IF write = "ENOSPC" THEN [exists |-> TRUE, entries |-> <<>>] ELSE urlCacheFile

\* What lookupProvider hands to its caller; `cause` is the error it wraps.
Resolved(provider, page, source) ==
    [kind |-> "ok", provider |-> provider, page |-> page, source |-> source, cause |-> ""]

LookupFailed(kind, cause) ==
    [kind |-> kind, provider |-> <<>>, page |-> "", source |-> "", cause |-> cause]

NoSearch == SearchFailed("", <<>>)

\* lookupProvider(query, {forceRefresh}); read and write say whether reading
\* and writing the URL cache file work during the call. `hit` and `search`
\* record what the call found in the cache and got from searchProvider.
lookupProvider(query, forceRefresh, web, read, write) ==
    LET normalizedQuery == toLowerCase(trim(query))
        cached == IF forceRefresh THEN NoEntry ELSE getCachedUrl(normalizedQuery, read)
        found == searchProvider(normalizedQuery, web)
    IN  IF normalizedQuery = <<>>
        THEN [result |-> LookupFailed("ProviderNotFoundError", ""), hit |-> FALSE,
              search |-> NoSearch, file |-> urlCacheFile]
        ELSE IF cached # NoEntry
        THEN [result |-> Resolved(cached.provider, cached.page, "cache"), hit |-> TRUE,
              search |-> NoSearch, file |-> urlCacheFile]
        ELSE IF found.kind \in {"ProviderNotFoundError", "DocsUrlNotFoundError"}
        THEN [result |-> LookupFailed("ProviderNotFoundError", found.kind), hit |-> FALSE,
              search |-> found, file |-> urlCacheFile]
        ELSE IF found.kind = "APITrackerSearchError"
        THEN [result |-> LookupFailed("DiscoveryFetchError", found.kind), hit |-> FALSE,
              search |-> found, file |-> urlCacheFile]
        ELSE IF write # "ok"
        THEN [result |-> LookupFailed("DiscoveryFetchError", write), hit |-> FALSE,
              search |-> found, file |-> writeUrlCacheFailed(write)]
        ELSE [result |-> Resolved(found.provider, found.page, found.source), hit |-> FALSE,
              search |-> found, file |-> cacheUrl(normalizedQuery, found, read)]

\* The entry of the URL cache file a lookup of `query` is about, if the file
\* holds one that has not expired.
Held(query) ==
    LET key == toLowerCase(trim(query))
    IN  /\ urlCacheFile.exists
        /\ key \in DOMAIN urlCacheFile.entries
        /\ urlCacheFile.entries[key].expiresAt >= now

\* What the search surface answers in the lookups the model makes.
LookupWebs ==
    {Web("ok", "page", TRUE, "none", FALSE),
     Web("ok", "notfound", FALSE, "results", TRUE),
     Web("ok", "notfound", FALSE, "results", FALSE),
     Web("ok", "notfound", FALSE, "none", FALSE),
     Web("ok", "error", FALSE, "error", FALSE)}

\* Reading and writing the URL cache file during one call: <<read, write>>.
IOs == {<<"ok", "ok">>, <<"EIO", "ok">>, <<"ok", "EIO">>, <<"ok", "ENOSPC">>}

\* The lookupProvider calls the model makes: <<query, forceRefresh, web, io>>.
\* A second provider and a blank query are looked up with the search surface
\* and the file system working.
LookupInputs ==
    ({Q1, Q1x} \X BOOLEAN \X LookupWebs \X IOs)
    \cup ({Q2, <<Blank>>} \X BOOLEAN \X {Web("ok", "page", TRUE, "none", FALSE)}
                          \X {<<"ok", "ok">>})

\* One call of searchProvider; `web` is kept to say what was there to find.
SearchProvider(query, web) ==
    /\ disc' = [op |-> "searchProvider", query |-> query, web |-> web,
                search |-> searchProvider(query, web)]
    /\ UNCHANGED <<cacheVars, vs, fos, inv, pg, urlCacheFile, extVars>>

\* One call of lookupProvider.
LookupProvider(query, forceRefresh, web, io) ==
    LET r == lookupProvider(query, forceRefresh, web, io[1], io[2])
    IN  /\ disc' = [op |-> "lookupProvider", query |-> query, forceRefresh |-> forceRefresh,
                    read |-> io[1], write |-> io[2], at |-> now, held |-> Held(query),
                    result |-> r.result, hit |-> r.hit, search |-> r.search]
        /\ urlCacheFile' = r.file
        /\ UNCHANGED <<cacheVars, vs, fos, inv, pg, extVars>>

DiscoveryTick ==
    /\ now < MaxClock
    /\ now' = now + 1
    /\ UNCHANGED <<manifestFile, blobs, emptyEntries, ret, lastSet, notCache>>

DiscoveryInit == CacheFresh /\ DiscFresh /\ vs = NONE /\ fos = NONE /\ inv = NONE

DiscoveryNext ==
    \/ \E q \in Queries, web \in Webs : SearchProvider(q, web)
    \/ \E in \in LookupInputs : LookupProvider(in[1], in[2], in[3], in[4])
    \/ DiscoveryTick

SpecDiscovery == DiscoveryInit /\ [][DiscoveryNext]_vars

\* ------------------------------------------------------------------ findBestSearchResult
\* A link of the results page whose href holds "/a/{slug}": the slug as
\* written in the href, the link's text and the text of the closest
\* div, li or article around it.
Link(slug, text, parentText) == [slug |-> slug, text |-> text, parentText |-> parentText]

Links ==
    {Link(<<"stripe">>, <<>>, <<>>),
     Link(<<"STRIPE">>, <<"pay">>, <<>>),
     Link(<<"stripe", "-api">>, <<>>, <<>>),
     Link(<<"my-", "stripe">>, <<>>, <<>>),
     Link(<<"acme">>, <<Blank, "STRIPE", "-like">>, <<"acme">>),
     Link(<<"acme">>, <<"acme">>, <<"pay", "STRIPE">>),
     Link(<<"other">>, <<"other">>, <<"other">>)}

\* s.startsWith(q) and s.includes(q) on token sequences.
StartsWithSeq(s, q) == Len(q) <= Len(s) /\ SubSeq(s, 1, Len(q)) = q

IncludesSeq(s, q) ==
    \E i \in 1..(Len(s) + 1) : i + Len(q) - 1 <= Len(s) /\ SubSeq(s, i, i + Len(q) - 1) = q

\* The score the page function gives one link.
Score(link, searchQuery) ==
    LET slug == toLowerCase(link.slug)
        text == toLowerCase(trim(link.text))
        parentText == toLowerCase(trim(link.parentText))
    IN  IF slug = searchQuery THEN 100
        ELSE IF StartsWithSeq(slug, searchQuery) THEN 80
        ELSE IF IncludesSeq(slug, searchQuery) THEN 60
        ELSE IF IncludesSeq(text, searchQuery) THEN 40
        ELSE IF IncludesSeq(parentText, searchQuery) THEN 20
        ELSE 0

\* results: the links with a score above zero, in document order.
RECURSIVE Scored(_, _)
Scored(links, searchQuery) ==
    IF links = <<>> THEN <<>>
    ELSE LET rest == Scored(Tail(links), searchQuery)
             r == [slug |-> toLowerCase(Head(links).slug), link |-> Head(links),
                   score |-> Score(Head(links), searchQuery)]
         IN  IF r.score > 0 THEN <<r>> \o rest ELSE rest

\* results.sort((a, b) => b.score - a.score)[0]: the sort is stable, so the
\* first of the results with the highest score.
FirstBest(results) ==
    LET best == CHOOSE i \in DOMAIN results :
                    /\ \A j \in DOMAIN results : results[j].score <= results[i].score
                    /\ \A j \in 1..(i - 1) : results[j].score < results[i].score
    IN  results[best]

NoCandidate == [slug |-> <<>>, link |-> Link(<<>>, <<>>, <<>>), score |-> 0]

\* findBestSearchResult without the sort.
findBestSearchResultUnsorted(links, query) ==
    LET results == Scored(links, query)
    IN  IF results = <<>> THEN NoCandidate ELSE results[1]

findBestSearchResult(links, query) ==
    LET results == Scored(links, query)
    IN  IF results = <<>> THEN NoCandidate ELSE FirstBest(results)

FindBestSearchResult ==
    /\ disc.op = "results"
    /\ disc' = [op |-> "findBestSearchResult", query |-> disc.query, links |-> disc.links,
                best |-> findBestSearchResult(disc.links, disc.query)]
    /\ UNCHANGED <<cacheVars, vs, fos, inv, pg, urlCacheFile, extVars>>

RankInit ==
    /\ CacheFresh /\ vs = NONE /\ fos = NONE /\ inv = NONE
    /\ pg = NONE /\ urlCacheFile = NoUrlCache /\ ExtFresh
    /\ disc \in {[op |-> "results", query |-> Q1, links |-> l] : l \in SeqsUpTo(Links, MaxLinks)}

RankNext == FindBestSearchResult

SpecRank == RankInit /\ [][RankNext]_vars

\* ------------------------------------------------------------------ browser module
\* Calls of the module run as async functions: between two awaits a call runs
\* alone, at an await another call or an event handler may run. Two calls can
\* be in flight.
Tasks == {"t1", "t2"}

NoBrowser == 0      \* browserInstance = null
NoPage == 0

Idle == [op |-> "none", pc |-> "idle", force |-> FALSE, b |-> NoBrowser, cb |-> NoBrowser,
         page |-> NoPage, out |-> ""]

NoEvent == [b |-> NoBrowser, was |-> NoBrowser, tracked |-> {}]

\* A call that took a page keeps, once ended, what it was, the page and how
\* it ended; nothing is kept of the others.
Ended(task, out) ==
    IF task.op \in {"getPage", "extract"}
    THEN [Idle EXCEPT !.op = task.op, !.pc = "done", !.page = task.page, !.out = out]
    ELSE Idle

\* The module after import, no browser launched.
BrowserFresh ==
    [browserInstance |-> NoBrowser, activePages |-> {}, browsers |-> <<>>, pages |-> <<>>,
     tasks |-> [t \in Tasks |-> Idle], event |-> NoEvent]

Live == {b \in DOMAIN br.browsers : br.browsers[b] = "live"}

Task(t) == br.tasks[t]

At(t, pc) == br # NONE /\ Task(t).pc = pc

SetTask(t, task) == [br.tasks EXCEPT ![t] = task]

\* Where a call goes on once launchBrowser has given it a browser, and once
\* closeBrowser has returned.
afterLaunch(op) == IF op = "launchBrowser" THEN "done" ELSE "newPage"
Returned(task) == IF task.pc = "done" THEN Ended(task, task.out) ELSE task
afterClose(op) == IF op = "closeBrowser" THEN "done" ELSE "launching"

\* The pages of `closed` are closed.
ClosedPage == [browser |-> NoBrowser, open |-> FALSE, by |-> ""]

ClosePages(pages, closed) ==
    [p \in DOMAIN pages |-> IF p \in closed THEN ClosedPage ELSE pages[p]]

\* A call starts (the second only while the first is in flight): launchBrowser(options), getPage(), closeBrowser(), or one of
\* scrapeEndpoints, detectFrameworkFromUrl, extractFromSwaggerUI,
\* extractFromRedoc and searchProvider ("extract"), which all take a page,
\* work on it and close it in a finally block.
BrowserCall(t, op, force) ==
    /\ br # NONE
    /\ Task(t).pc \in {"idle", "done"}
    /\ t = "t2" => Task("t1").pc \notin {"idle", "done"}
    /\ br' = [br EXCEPT !.tasks = SetTask(t, [Idle EXCEPT !.op = op, !.force = force,
                            !.pc = IF op = "closeBrowser" THEN "close" ELSE "launch"])]
    /\ UNCHANGED <<cacheVars, vs, fos, inv, pg, urlCacheFile, disc, sc>>

\* launchBrowser up to its first await.
LaunchEnter(t) ==
    /\ At(t, "launch")
    /\ br' = [br EXCEPT !.tasks = SetTask(t,
                IF br.browserInstance # NoBrowser /\ ~Task(t).force
                THEN Returned([Task(t) EXCEPT !.b = br.browserInstance,
                                              !.pc = afterLaunch(Task(t).op)])
                ELSE IF br.browserInstance # NoBrowser
                THEN [Task(t) EXCEPT !.pc = "close", !.force = FALSE]
                ELSE [Task(t) EXCEPT !.pc = "launching", !.force = FALSE])]
    /\ UNCHANGED <<cacheVars, vs, fos, inv, pg, urlCacheFile, disc, sc>>

\* await puppeteer.launch(launchOptions) settles.
Launched(t, ok) ==
    /\ At(t, "launching")
    /\ Len(br.browsers) < MaxBrowsers
    /\ br' = IF ok
             THEN [br EXCEPT !.browsers = Append(br.browsers, "live"),
                             !.browserInstance = Len(br.browsers) + 1,
                             !.tasks = SetTask(t, Returned([Task(t) EXCEPT
                                                      !.b = Len(br.browsers) + 1,
                                                      !.pc = afterLaunch(Task(t).op)]))]
             ELSE [br EXCEPT !.tasks = SetTask(t, Ended(Task(t), "BrowserLaunchError"))]
    /\ UNCHANGED <<cacheVars, vs, fos, inv, pg, urlCacheFile, disc, sc>>

\* closeBrowser: the tracked pages are closed, each close event taking its
\* page out of activePages.
CloseEnter(t) ==
    /\ At(t, "close")
    /\ br' = [br EXCEPT !.pages = ClosePages(br.pages, br.activePages),
                        !.activePages = {},
                        !.tasks = SetTask(t, [Task(t) EXCEPT !.pc = "clear"])]
    /\ UNCHANGED <<cacheVars, vs, fos, inv, pg, urlCacheFile, disc, sc>>

\* closeBrowser after Promise.all: activePages.clear(), then
\* browserInstance.close() is called if a browser is held.
CloseClear(t) ==
    /\ At(t, "clear")
    /\ br' = [br EXCEPT !.activePages = {},
                        !.tasks = SetTask(t,
                            IF br.browserInstance # NoBrowser
                            THEN [Task(t) EXCEPT !.cb = br.browserInstance,
                                                 !.pc = "closingBrowser"]
                            ELSE Returned([Task(t) EXCEPT !.pc = afterClose(Task(t).op)]))]
    /\ UNCHANGED <<cacheVars, vs, fos, inv, pg, urlCacheFile, disc, sc>>

\* await browserInstance.close() settles: it resolves once the browser has
\* disconnected, or rejects (the rejection is ignored); finally
\* browserInstance = null.
CloseDone(t, ok) ==
    /\ At(t, "closingBrowser")
    /\ ok => br.browsers[Task(t).cb] = "dead"
    /\ br' = [br EXCEPT !.browserInstance = NoBrowser,
                        !.tasks = SetTask(t, Returned([Task(t) EXCEPT !.cb = NoBrowser,
                                                         !.pc = afterClose(Task(t).op)]))]
    /\ UNCHANGED <<cacheVars, vs, fos, inv, pg, urlCacheFile, disc, sc>>

\* getPage after launchBrowser: browser.newPage(), setViewport,
\* activePages.add(page).
NewPage(t) ==
    /\ At(t, "newPage")
    /\ Len(br.pages) < MaxPages
    /\ br' = IF br.browsers[Task(t).b] = "live"
             THEN [br EXCEPT !.pages = Append(br.pages, [browser |-> Task(t).b, open |-> TRUE,
                                                          by |-> Task(t).op]),
                             !.activePages = br.activePages \cup {Len(br.pages) + 1},
                             !.tasks = SetTask(t, Returned([Task(t) EXCEPT
                                    !.page = Len(br.pages) + 1, !.b = NoBrowser,
                                    !.pc = IF Task(t).op = "getPage" THEN "done" ELSE "work"]))]
             ELSE [br EXCEPT !.tasks = SetTask(t, Ended(Task(t), "BrowserError"))]
    /\ UNCHANGED <<cacheVars, vs, fos, inv, pg, urlCacheFile, disc, sc>>

\* The finally block of an extraction that returned or threw without it:
\* page.close() unless page.isClosed().
afterWorkReturnOnly(outcome, open) ==
    IF open /\ outcome = "return" THEN "closingPage" ELSE "done"

\* The finally block of an extraction: page.close() unless page.isClosed().
afterWork(outcome, open) == IF open THEN "closingPage" ELSE "done"

\* The extraction's work on its page ends by a return or a throw.
Work(t, outcome) ==
    /\ At(t, "work")
    /\ br' = [br EXCEPT !.tasks = SetTask(t, Returned([Task(t) EXCEPT !.out = outcome,
                            !.pc = afterWork(outcome, br.pages[Task(t).page].open)]))]
    /\ UNCHANGED <<cacheVars, vs, fos, inv, pg, urlCacheFile, disc, sc>>

\* await page.close() settles; the close event takes the page out of
\* activePages.
PageClosed(t) ==
    /\ At(t, "closingPage")
    /\ br' = [br EXCEPT !.pages = ClosePages(br.pages, {Task(t).page}),
                        !.activePages = br.activePages \ {Task(t).page},
                        !.tasks = SetTask(t, Ended(Task(t), Task(t).out))]
    /\ UNCHANGED <<cacheVars, vs, fos, inv, pg, urlCacheFile, disc, sc>>

\* Browser b disconnects (closed, killed or crashed) and the handler
\* launchBrowser registered on it runs: browserInstance = null;
\* activePages.clear(). `event` keeps what the handler found when b was not
\* the browser held in browserInstance.
Disconnected(b) ==
    /\ br # NONE
    /\ b \in Live
    /\ br' = [br EXCEPT !.browsers = [br.browsers EXCEPT ![b] = "dead"],
                        !.pages = ClosePages(br.pages,
                                    {p \in DOMAIN br.pages : br.pages[p].browser = b}),
                        !.browserInstance = NoBrowser,
                        !.activePages = {},
                        !.event = IF b = br.browserInstance THEN NoEvent
                                  ELSE [b |-> b, was |-> br.browserInstance,
                                        tracked |-> br.activePages]]
    /\ UNCHANGED <<cacheVars, vs, fos, inv, pg, urlCacheFile, disc, sc>>

BrowserInit ==
    /\ CacheFresh /\ vs = NONE /\ fos = NONE /\ inv = NONE
    /\ pg = NONE /\ urlCacheFile = NoUrlCache /\ disc = NONE /\ sc = NONE
    /\ br = BrowserFresh

BrowserNext ==
    \/ \E t \in Tasks, op \in {"launchBrowser", "getPage", "closeBrowser", "extract"} :
            BrowserCall(t, op, FALSE)
    \/ \E t \in Tasks : BrowserCall(t, "launchBrowser", TRUE)
    \/ \E t \in Tasks : LaunchEnter(t)
    \/ \E t \in Tasks, ok \in BOOLEAN : Launched(t, ok)
    \/ \E t \in Tasks : CloseEnter(t)
    \/ \E t \in Tasks : CloseClear(t)
    \/ \E t \in Tasks, ok \in BOOLEAN : CloseDone(t, ok)
    \/ \E t \in Tasks : NewPage(t)
    \/ \E t \in Tasks, outcome \in {"return", "throw"} : Work(t, outcome)
    \/ \E t \in Tasks : PageClosed(t)
    \/ \E b \in 1..MaxBrowsers : Disconnected(b)

SpecBrowser == BrowserInit /\ [][BrowserNext]_vars

\* ------------------------------------------------------------------ process exit handlers
\* One run of the command line: its calls follow one another in task t1; the
\* handler of SIGINT, SIGTERM or uncaughtException runs as task t2, awaits
\* cleanup() (closeBrowser) and calls process.exit.
Signals == {"SIGINT", "SIGTERM", "uncaughtException"}

\* The module after import, in a running process.
ExitFresh ==
    [f \in DOMAIN BrowserFresh \cup {"exit", "signal"} |->
        IF f = "exit" THEN "running" ELSE IF f = "signal" THEN "" ELSE BrowserFresh[f]]

Exited == br # NONE /\ br.exit = "exited"

\* The pages that are open.
OpenPages == {p \in DOMAIN br.pages : br.pages[p].open}

\* The process has not exited: the calls of the run and the events go on.
Alive == br # NONE /\ br.exit # "exited"

\* process.on(signal, async () => { await cleanup(); ... }): the handler
\* starts, calling closeBrowser.
Signal(signal) ==
    /\ br # NONE
    /\ br.exit = "running"
    /\ br' = [br EXCEPT !.exit = "cleanup", !.signal = signal,
                        !.tasks = SetTask("t2", [Idle EXCEPT !.op = "closeBrowser",
                                                             !.pc = "close"])]
    /\ UNCHANGED <<cacheVars, vs, fos, inv, pg, urlCacheFile, disc, sc>>

\* cleanup() has returned: process.exit(0), or process.exit(1) after an
\* uncaught exception. Whatever the run was awaiting is abandoned.
Exit ==
    /\ br # NONE
    /\ br.exit = "cleanup"
    /\ Task("t2").pc = "idle"
    /\ br' = [br EXCEPT !.exit = "exited"]
    /\ UNCHANGED <<cacheVars, vs, fos, inv, pg, urlCacheFile, disc, sc>>

ExitInit ==
    /\ CacheFresh /\ vs = NONE /\ fos = NONE /\ inv = NONE
    /\ pg = NONE /\ urlCacheFile = NoUrlCache /\ disc = NONE /\ sc = NONE
    /\ br = ExitFresh

ExitNext ==
    \/ \E op \in {"getPage", "extract", "closeBrowser"} : Alive /\ BrowserCall("t1", op, FALSE)
    \/ \E t \in Tasks : Alive /\ LaunchEnter(t)
    \/ \E t \in Tasks, ok \in BOOLEAN : Alive /\ Launched(t, ok)
    \/ \E t \in Tasks : Alive /\ CloseEnter(t)
    \/ \E t \in Tasks : Alive /\ CloseClear(t)
    \/ \E t \in Tasks, ok \in BOOLEAN : Alive /\ CloseDone(t, ok)
    \/ \E t \in Tasks : Alive /\ NewPage(t)
    \/ \E t \in Tasks, outcome \in {"return", "throw"} : Alive /\ Work(t, outcome)
    \/ \E t \in Tasks : Alive /\ PageClosed(t)
    \/ \E b \in 1..MaxBrowsers : Alive /\ Disconnected(b)
    \/ \E signal \in Signals : Signal(signal)
    \/ Exit

SpecExit == ExitInit /\ [][ExitNext]_vars

\* ------------------------------------------------------------------ handlers and the browser
\* handleFetch and handleEndpoints with what their strategies leave in the
\* browser module. The calls of a handler follow one another, so of the
\* module only browserInstance and activePages are kept. A strategy that
\* takes a page (scrapeEndpoints, extractFromSwaggerUI, searchProvider) has
\* closed it when it ends and leaves the browser it launched, if the launch
\* succeeded, in browserInstance.
NoBrowserHeld == [browserInstance |-> NoBrowser, activePages |-> {}]

\* After getPage() and, when closed, page.close().
tookPage(launched, closed) ==
    IF ~launched THEN br
    ELSE [browserInstance |-> 1,
          activePages |-> IF closed THEN br.activePages ELSE br.activePages \cup {1}]

\* closeBrowser() between two statements of a handler.
closeBrowser == NoBrowserHeld

\* closesBrowser without the closeBrowser() before the return of a handler
\* that scraped endpoints.
closesBrowserNotOnFound(op, pc, y) ==
    IF y = "found" THEN FALSE
    ELSE IF op = "handleFetch" /\ pc \in {"cache", "openapi"} THEN y \notin {"ok", "result"}
    ELSE TRUE

\* The handler leaves at pc with outcome y: does it await closeBrowser() on
\* that path? handleFetch returns without it on a cache hit and on a spec
\* from fetchOpenAPISpec; every other return, every catch and the end of
\* handleEndpoints await it.
closesBrowser(op, pc, y) ==
    IF op = "handleFetch" /\ pc \in {"cache", "openapi"} THEN y \notin {"ok", "result"} ELSE TRUE

\* The handler has finished with `out`.
Left(out, pc, y) ==
    /\ inv' = [inv EXCEPT !.pc = "done", !.out = out, !.at = pc]
    /\ br' = IF closesBrowser(inv.op, pc, y) THEN closeBrowser ELSE br

HbUnchanged == UNCHANGED <<cacheVars, vs, fos, pg, urlCacheFile, disc, sc>>

\* A command starts, in a new process.
HbCall(cmd, query, force, noCache) ==
    /\ inv.pc = "done"
    /\ inv' = [op |-> cmd, query |-> query, pc |-> entryPc(cmd, query, force, noCache),
               force |-> force, noCache |-> noCache, spec |-> FALSE, out |-> "", at |-> "",
               used |-> FALSE]
    /\ br' = NoBrowserHeld
    /\ HbUnchanged

\* await getCached(query)
HbCache(kind) ==
    /\ inv.pc = "cache"
    /\ IF kind = "ok"
       THEN IF inv.op = "handleFetch"
            THEN Left("spec", "cache", kind)
            ELSE inv' = [inv EXCEPT !.spec = TRUE, !.pc = "output"] /\ br' = br
       ELSE IF kind = "CacheIOError"
       THEN Left("threw", "cache", kind)
       ELSE inv' = [inv EXCEPT !.pc = afterCache(inv.query)] /\ br' = br
    /\ HbUnchanged

\* await fetchOpenAPISpec(target), and setCache of its result.
HbOpenapi(y) ==
    /\ inv.pc = "openapi"
    /\ y = "CacheIOError" => ~(inv.op = "handleFetch" /\ inv.noCache)
    /\ IF y = "CacheIOError" THEN Left("threw", "openapi", y)
       ELSE IF y = "result"
       THEN IF inv.op = "handleFetch"
            THEN Left("spec", "openapi", y)
            ELSE inv' = [inv EXCEPT !.spec = TRUE, !.pc = "output"] /\ br' = br
       ELSE /\ inv' = [inv EXCEPT !.pc = IF isUrl(inv.query) THEN "scrape" ELSE "swagger"]
            /\ br' = br
    /\ HbUnchanged

\* await scrapeEndpoints(target)
HbScrape(y, launched) ==
    LET next == scrapeNext(inv.pc, isUrl(inv.query), y)
        after == tookPage(launched, TRUE)
    IN  /\ inv.pc \in {"scrape", "scrape2"}
        /\ y = "found" => launched
        /\ IF next \in {"threw", "done"}
           THEN /\ inv' = [inv EXCEPT !.pc = "done", !.at = inv.pc, !.used = inv.used \/ launched,
                                      !.out = IF next = "done" THEN "scraped" ELSE "threw"]
                /\ br' = IF closesBrowser(inv.op, inv.pc, y) THEN closeBrowser ELSE after
           ELSE /\ inv' = [inv EXCEPT !.pc = next, !.used = inv.used \/ launched]
                /\ br' = after
        /\ HbUnchanged

\* getPage, findApiReferenceUrl(docsUrl, page), page.close(): a throw of
\* getPage or of findApiReferenceUrl goes to the catch of the handler, the
\* page still open.
HbFindRef(y, launched) ==
    /\ inv.pc = "findRef"
    /\ y # "BrowserLaunchError" <=> launched
    /\ IF y \in {"BrowserLaunchError", "threw"}
       THEN /\ inv' = [inv EXCEPT !.pc = "done", !.at = "findRef", !.out = "threw",
                                  !.used = inv.used \/ launched]
            /\ br' = IF closesBrowser(inv.op, "findRef", y) THEN closeBrowser
                     ELSE tookPage(launched, FALSE)
       ELSE /\ inv' = [inv EXCEPT !.pc = IF y = "ref" THEN "scrape2" ELSE "openapi",
                                  !.used = TRUE]
            /\ br' = tookPage(launched, TRUE)
    /\ HbUnchanged

\* await extractFromSwaggerUI(target), and setCache of its result.
HbSwagger(y, launched) ==
    LET after == tookPage(launched, TRUE)
        closed == IF closesBrowser(inv.op, "swagger", y) THEN closeBrowser ELSE after
    IN  /\ inv.pc = "swagger"
        /\ y = "result" => launched
        /\ IF y = "result" /\ inv.op = "handleEndpoints"
           THEN /\ inv' = [inv EXCEPT !.spec = TRUE, !.pc = "output", !.used = TRUE]
                /\ br' = closed
           ELSE /\ inv' = [inv EXCEPT !.pc = "done", !.at = "swagger",
                                      !.used = inv.used \/ launched,
                                      !.out = IF y = "result" THEN "spec"
                                              ELSE IF y = "BrowserError" THEN "threw"
                                              ELSE "none-found"]
                /\ br' = closed
        /\ HbUnchanged

\* await lookupProvider(query): from the URL cache, or by searchProvider.
HbLookup(y, launched) ==
    /\ inv.pc = "lookup"
    /\ IF y = "ok" /\ inv.op = "handleEndpoints"
       THEN /\ inv' = [inv EXCEPT !.pc = "scrape", !.used = launched]
            /\ br' = tookPage(launched, TRUE)
       ELSE /\ inv' = [inv EXCEPT !.pc = "done", !.at = "lookup", !.used = launched,
                                  !.out = IF y = "ok" THEN "docs-url" ELSE y]
            /\ br' = IF closesBrowser(inv.op, "lookup", y) THEN closeBrowser
                     ELSE tookPage(launched, TRUE)
    /\ HbUnchanged

\* handleEndpoints prints the endpoint list; await closeBrowser().
HbOutput ==
    /\ inv.pc = "output"
    /\ inv' = [inv EXCEPT !.pc = "done", !.at = "output", !.out = "spec"]
    /\ br' = IF closesBrowser(inv.op, "output", "spec") THEN closeBrowser ELSE br
    /\ HbUnchanged

\* The browser held disconnects between two statements of the handler: its
\* handler sets browserInstance = null and clears activePages.
HbDisconnected ==
    /\ inv.pc # "done"
    /\ br.browserInstance # NoBrowser
    /\ br' = NoBrowserHeld
    /\ inv' = inv
    /\ HbUnchanged

HbInit ==
    /\ CacheFresh /\ vs = NONE /\ fos = NONE
    /\ pg = NONE /\ urlCacheFile = NoUrlCache /\ disc = NONE /\ sc = NONE
    /\ inv = [op |-> "none", query |-> NoUrl, pc |-> "done", force |-> FALSE,
              noCache |-> FALSE, spec |-> FALSE, out |-> "", at |-> "", used |-> FALSE]
    /\ br = NoBrowserHeld

HbNext ==
    \/ \E c \in Commands : HbCall(c[1], c[2], c[3], c[4])
    \/ \E kind \in {"ok", "CacheNotFoundError", "CacheIOError"} : HbCache(kind)
    \/ \E y \in {"result", "null", "CacheIOError"} : HbOpenapi(y)
    \/ \E y \in ScrapeOutcomes, launched \in BOOLEAN : HbScrape(y, launched)
    \/ \E y \in {"ref", "none", "threw", "BrowserLaunchError"}, launched \in BOOLEAN :
            HbFindRef(y, launched)
    \/ \E y \in SwaggerOutcomes, launched \in BOOLEAN : HbSwagger(y, launched)
    \/ \E y \in LookupOutcomes, launched \in BOOLEAN : HbLookup(y, launched)
    \/ HbOutput
    \/ HbDisconnected

SpecHandlerBrowser == HbInit /\ [][HbNext]_vars

\* ------------------------------------------------------------------ setCache, step by step
\* Two runs of the command line on one cache directory, each calling setCache
\* once (handleFetch). An invocation runs alone between two awaits; the other
\* one, or a kill of the process, may come at an await. Each process has its
\* own EMPTY_MANIFEST.
Procs == {"p1", "p2"}

NotRunning == [pc |-> "idle", url |-> <<>>, spec |-> EmptyDoc, ttl |-> NoTime,
               at |-> NoTime, manifest |-> <<>>]

\* No invocation made; lastWriter names, per key, the invocation that wrote
\* the manifest last.
NoSetCache == [procs |-> [p \in Procs |-> NotRunning], lastWriter |-> <<>>]

RaceInputs == {<<U1, PetStore3, NoTime>>, <<U1, PetStore3, 1>>, <<U2, PetStore3, 1>>}

Proc(p) == sc.procs[p]

InFlight(p) == Proc(p).pc \in {"blob", "read", "write"}

SetProc(p, proc) == [sc EXCEPT !.procs = [sc.procs EXCEPT ![p] = proc]]

\* setCache with the manifest updated before the blob is written.
stepAfterIndexFirst(pc) ==
    CASE pc = "start" -> "read"
      [] pc = "read"  -> "write"
      [] pc = "write" -> "blob"
      [] OTHER        -> "done"

\* The order of setCache's steps: writeFile(specPath), readManifest,
\* writeManifest.
stepAfter(pc) ==
    CASE pc = "start" -> "blob"
      [] pc = "blob"  -> "read"
      [] pc = "read"  -> "write"
      [] OTHER        -> "done"

\* manifest.entries[key] = entry, only when the manifest read has none.
updatedEntriesIfAbsent(entries, key, entry) ==
    IF key \in DOMAIN entries THEN entries ELSE Put(entries, key, entry)

\* manifest.entries[key] = entry
updatedEntries(entries, key, entry) == Put(entries, key, entry)

\* setCache(url, spec, {ttl}) up to the blob write: now = new Date().
ScStart(p, url, spec, ttl) ==
    /\ sc # NONE
    /\ Proc(p).pc = "idle"
    /\ sc' = SetProc(p, [pc |-> stepAfter("start"), url |-> url, spec |-> spec, ttl |-> ttl,
                         at |-> now, manifest |-> <<>>])
    /\ UNCHANGED <<cacheVars, vs, fos, inv, pg, urlCacheFile, disc, br>>

\* await writeFile(specPath, cachedData)
ScWriteBlob(p) ==
    /\ sc # NONE
    /\ Proc(p).pc = "blob"
    /\ blobs' = Put(blobs, FileName(generateCacheKey(Proc(p).url)),
                    CachedData(Proc(p).url, Proc(p).spec, Proc(p).ttl, Proc(p).at))
    /\ sc' = SetProc(p, [Proc(p) EXCEPT !.pc = stepAfter("blob")])
    /\ UNCHANGED <<now, manifestFile, emptyEntries, ret, lastSet, vs, fos, inv, pg,
                   urlCacheFile, disc, br>>

\* const manifest = await readManifest()
ScReadManifest(p) ==
    /\ sc # NONE
    /\ Proc(p).pc = "read"
    /\ sc' = SetProc(p, [Proc(p) EXCEPT !.manifest = readManifest.entries,
                                        !.pc = stepAfter("read")])
    /\ UNCHANGED <<cacheVars, vs, fos, inv, pg, urlCacheFile, disc, br>>

\* manifest.entries[key] = {...}; await writeManifest(manifest)
ScWriteManifest(p) ==
    LET key == generateCacheKey(Proc(p).url)
        entry == ManifestEntry(Proc(p).url, Proc(p).spec, Proc(p).ttl, Proc(p).at)
    IN  /\ sc # NONE
        /\ Proc(p).pc = "write"
        /\ manifestFile' = [exists |-> TRUE,
                            entries |-> updatedEntries(Proc(p).manifest, key, entry)]
        /\ sc' = [SetProc(p, [Proc(p) EXCEPT !.manifest = <<>>, !.pc = stepAfter("write")])
                    EXCEPT !.lastWriter = Put(sc.lastWriter, key, p)]
        /\ UNCHANGED <<now, blobs, emptyEntries, ret, lastSet, vs, fos, inv, pg,
                       urlCacheFile, disc, br>>

\* The process is killed at an await of setCache.
ScKilled(p) ==
    /\ sc # NONE
    /\ InFlight(p)
    /\ sc' = SetProc(p, [Proc(p) EXCEPT !.manifest = <<>>, !.pc = "killed"])
    /\ UNCHANGED <<cacheVars, vs, fos, inv, pg, urlCacheFile, disc, br>>

\* A later run calls clearCache(url) while no setCache is in flight; the runs
\* before it are forgotten.
ScClearCache(url) ==
    LET key == generateCacheKey(url)
    IN  /\ sc # NONE
        /\ \A p \in Procs : ~InFlight(p)
        /\ key \in DOMAIN readManifest.entries
        /\ blobs' = Drop(blobs, readManifest.entries[key].filename)
        /\ manifestFile' = [exists |-> TRUE, entries |-> Drop(readManifest.entries, key)]
        /\ sc' = NoSetCache
        /\ UNCHANGED <<now, emptyEntries, ret, lastSet, vs, fos, inv, pg, urlCacheFile,
                       disc, br>>

RaceTick ==
    /\ sc # NONE
    /\ now < MaxClock
    /\ now' = now + 1
    /\ UNCHANGED <<manifestFile, blobs, emptyEntries, ret, lastSet, notCache>>

RaceInit ==
    /\ CacheFresh /\ vs = NONE /\ fos = NONE /\ inv = NONE
    /\ pg = NONE /\ urlCacheFile = NoUrlCache /\ disc = NONE /\ br = NONE
    /\ sc = NoSetCache

RaceNext ==
    \/ \E p \in Procs, in \in RaceInputs : ScStart(p, in[1], in[2], in[3])
    \/ \E p \in Procs : ScWriteBlob(p)
    \/ \E p \in Procs : ScReadManifest(p)
    \/ \E p \in Procs : ScWriteManifest(p)
    \/ \E p \in Procs : ScKilled(p)
    \/ \E u \in {U1, U2} : ScClearCache(u)
    \/ RaceTick

SpecRace == RaceInit /\ [][RaceNext]_vars

\* ------------------------------------------------------------------ validateSpec alone
OpenapiTokens == {ABSENT, "3.0.0", "3.1.0", "2.0", "num:3.1"}
SwaggerTokens == {ABSENT, "2.0", "3.0", "num:2"}
FieldTokens == {ABSENT, FALSY, "obj"}

ParsedValues ==
    {Array, Scalar, Null} \cup
    {Object(Doc(o, sw, i, p, w, c)) :
        o \in OpenapiTokens, sw \in SwaggerTokens, i \in FieldTokens,
        p \in FieldTokens, w \in {ABSENT, "obj"}, c \in {ABSENT, "obj"}}

ValidateInit == CacheFresh /\ DiscFresh /\ fos = NONE /\ inv = NONE /\ vs \in {[op |-> "arg", value |-> v] : v \in ParsedValues}

ValidateSpec ==
    /\ vs.op = "arg"
    /\ vs' = [op |-> "validateSpec", value |-> vs.value, out |-> validateSpec(vs.value)]
    /\ UNCHANGED <<cacheVars, fos, inv, discVars>>

ValidateNext == ValidateSpec

SpecValidate == ValidateInit /\ [][ValidateNext]_vars

\* ------------------------------------------------------------------ the three validators
\* validateSpec of swagger-ui.js: the spec info, or null.
validateSpecSwaggerUI(v) ==
    IF v.type \notin {"object", "array"}
    THEN Invalid("null")
    ELSE IF Truthy(v.doc.openapi) /\ IsString(v.doc.openapi) /\ startsWith3(v.doc.openapi)
    THEN IF ~Truthy(v.doc.info) THEN Invalid("null") ELSE Valid("openapi", v.doc.openapi)
    ELSE IF Truthy(v.doc.swagger) /\ v.doc.swagger = "2.0"
    THEN IF ~Truthy(v.doc.info) \/ ~Truthy(v.doc.paths)
         THEN Invalid("null") ELSE Valid("swagger", v.doc.swagger)
    ELSE Invalid("null")

\* validateSpec of redoc.js: the spec info, or null.
validateSpecRedoc(v) ==
    IF v.type \notin {"object", "array"}
    THEN Invalid("null")
    ELSE IF Truthy(v.doc.openapi) /\ IsString(v.doc.openapi) /\ startsWith3(v.doc.openapi)
    THEN IF ~Truthy(v.doc.info) THEN Invalid("null") ELSE Valid("openapi", v.doc.openapi)
    ELSE IF Truthy(v.doc.swagger) /\ v.doc.swagger = "2.0"
    THEN IF ~Truthy(v.doc.info) \/ ~Truthy(v.doc.paths)
         THEN Invalid("null") ELSE Valid("swagger", v.doc.swagger)
    ELSE Invalid("null")

\* One parsed value given to the three validators.
ValidateThrice ==
    /\ vs.op = "arg"
    /\ vs' = [op |-> "validators", value |-> vs.value, out |-> validateSpec(vs.value),
              swaggerUI |-> validateSpecSwaggerUI(vs.value),
              redoc |-> validateSpecRedoc(vs.value)]
    /\ UNCHANGED <<cacheVars, fos, inv, discVars>>

SpecValidators == ValidateInit /\ [][ValidateThrice]_vars

\* ------------------------------------------------------------------ extraction layers
\* What each layer of an extractor finds on a rendered page. A layer of the
\* endpoint extractors yields a list of endpoints, a layer of
\* extractFromSwaggerUI and extractFromRedoc a document or null.
Endpoints(list) == [type |-> "endpoints", list |-> list]

NoEndpoints == Endpoints(<<>>)

Found(layer) == Endpoints(<<Endpoint("GET", "/pets", layer)>>)

\* What the inline scripts of a Scalar page hold: no spec, or a spec with
\* paths and the endpoints read from it.
NoInline == [found |-> FALSE, endpoints |-> NoEndpoints]

Inline(endpoints) == [found |-> TRUE, endpoints |-> endpoints]

\* The spec URL of a Scalar page: none, one whose fetch or parse throws, or
\* one that gives a spec with these endpoints.
SpecUrl(kind, endpoints) == [kind |-> kind, endpoints |-> endpoints]

\* {openapi: "3.0.0", paths} without info: no validator accepts it.
NoInfo3 == Doc("3.0.0", ABSENT, ABSENT, "obj", ABSENT, ABSENT)

Layer(name, runs, yield) == [name |-> name, runs |-> runs, yield |-> yield]

Nothing(yield) ==
    IF yield.type = "endpoints" THEN yield.list = <<>> ELSE yield.type = "null"

\* Every layer that may run runs, and the last one that yields something
\* gives the result.
RECURSIVE cascadeAll(_, _, _)
cascadeAll(layers, ran, got) ==
    IF layers = <<>> THEN [ran |-> ran, from |-> got.name, yield |-> got.yield]
    ELSE IF ~Head(layers).runs THEN cascadeAll(Tail(layers), ran, got)
    ELSE cascadeAll(Tail(layers), Append(ran, Head(layers).name),
                    IF Nothing(Head(layers).yield) THEN got ELSE Head(layers))

layeredAll(layers, none) == cascadeAll(layers, <<>>, Layer("", FALSE, none))

\* The layers in order, each under `if (!spec)` or after an early return of
\* the one before: the first one that yields something ends the cascade.
RECURSIVE cascade(_, _, _)
cascade(layers, ran, got) ==
    IF layers = <<>> THEN [ran |-> ran, from |-> got.name, yield |-> got.yield]
    ELSE IF ~Head(layers).runs THEN cascade(Tail(layers), ran, got)
    ELSE IF Nothing(Head(layers).yield)
    THEN cascade(Tail(layers), Append(ran, Head(layers).name), got)
    ELSE [ran |-> Append(ran, Head(layers).name), from |-> Head(layers).name,
          yield |-> Head(layers).yield]

layered(layers, none) == cascade(layers, <<>>, Layer("", FALSE, none))

\* extractSwaggerUiEndpoints: the spec held by window.ui, then the .opblock
\* elements.
swaggerUiEndpointLayers(page) ==
    layered(<<Layer("state", TRUE, page.state), Layer("dom", TRUE, page.dom)>>, NoEndpoints)

\* extractScalarEndpoints: an inline spec, the spec behind a spec URL (not
\* looked at when an inline spec with paths was found), the operation
\* elements, the sidebar links, the page text.
scalarEndpointLayers(page) ==
    layered(<<Layer("scripts", TRUE, page.inline.endpoints),
              Layer("specUrl", ~page.inline.found /\ page.specUrl.kind # "absent",
                    page.specUrl.endpoints),
              Layer("dom", TRUE, page.dom),
              Layer("sidebar", TRUE, page.sidebar),
              Layer("scan", TRUE, page.scan)>>,
            NoEndpoints)

\* The three strategies of extractFromSwaggerUI and extractFromRedoc: the
\* application state once the application is ready, the interceptor's
\* captured spec, the inline scripts.
specLayers(page) ==
    layered(<<Layer("state", page.ready, page.state),
              Layer("network", TRUE, page.network),
              Layer("scripts", TRUE, page.scripts)>>,
            Null)

\* if (spec) { const specInfo = validateSpec(spec); if (specInfo) return {...} }
\* return null
validated(c, specInfo) ==
    [c EXCEPT !.yield = IF ~Nothing(c.yield) /\ specInfo.ok THEN c.yield ELSE Null]

extractFromSwaggerUILayers(page) ==
    validated(specLayers(page), validateSpecSwaggerUI(specLayers(page).yield))

extractFromRedocLayers(page) ==
    validated(specLayers(page), validateSpecRedoc(specLayers(page).yield))

EndpointPages ==
    [kind : {"endpoints"},
     state : {NoEndpoints, Found("state")},
     inline : {NoInline, Inline(NoEndpoints), Inline(Found("scripts"))},
     specUrl : {SpecUrl("absent", NoEndpoints), SpecUrl("error", NoEndpoints),
                SpecUrl("ok", NoEndpoints), SpecUrl("ok", Found("specUrl"))},
     dom : {NoEndpoints, Found("dom")},
     sidebar : {NoEndpoints, Found("sidebar")},
     scan : {NoEndpoints, Found("scan")}]

SpecPages ==
    [kind : {"spec"},
     ready : BOOLEAN,
     state : {Null, Object(PetStore3), Object(NoInfo3)},
     network : {Null, Object(PetStore2)},
     scripts : {Null, Object(PetStore3), Object(NoInfo3)}]

LayersExtracted(op, extractor, out) ==
    /\ pg.op = "rendered"
    /\ pg' = [op |-> op, extractor |-> extractor, page |-> pg.page, out |-> out]
    /\ UNCHANGED <<cacheVars, vs, fos, inv, urlCacheFile, disc, extVars>>

ExtractSwaggerUiEndpoints ==
    /\ pg.op = "rendered" /\ pg.page.kind = "endpoints"
    /\ LayersExtracted("endpoints", "extractSwaggerUiEndpoints", swaggerUiEndpointLayers(pg.page))

ExtractScalarEndpoints ==
    /\ pg.op = "rendered" /\ pg.page.kind = "endpoints"
    /\ LayersExtracted("endpoints", "extractScalarEndpoints", scalarEndpointLayers(pg.page))

ExtractSpecSwaggerUI ==
    /\ pg.op = "rendered" /\ pg.page.kind = "spec"
    /\ LayersExtracted("spec", "extractFromSwaggerUI", extractFromSwaggerUILayers(pg.page))

ExtractSpecRedoc ==
    /\ pg.op = "rendered" /\ pg.page.kind = "spec"
    /\ LayersExtracted("spec", "extractFromRedoc", extractFromRedocLayers(pg.page))

LayersInit ==
    /\ CacheFresh /\ vs = NONE /\ fos = NONE /\ inv = NONE
    /\ urlCacheFile = NoUrlCache /\ disc = NONE /\ ExtFresh
    /\ pg \in {[op |-> "rendered", page |-> page] : page \in EndpointPages \cup SpecPages}

LayersNext ==
    \/ ExtractSwaggerUiEndpoints
    \/ ExtractScalarEndpoints
    \/ ExtractSpecSwaggerUI
    \/ ExtractSpecRedoc

SpecLayered == LayersInit /\ [][LayersNext]_vars

\* ------------------------------------------------------------------ network interception
\* setupNetworkInterception of swagger-ui.js and redoc.js: the response
\* handler of one page, one run of it per response, suspended at
\* `await response.text()`.
MaxResponses == 2

PageResponses == 1..MaxResponses

\* SPEC_URL_PATTERNS.some(pattern => pattern.test(url)), patterns with /i
matchesSpecUrl(url) ==
    \/ \E i \in 1..(Len(url) - 1) :
          /\ toLowerCase(url)[i] \in {"/openapi", "/swagger"}
          /\ toLowerCase(url)[i + 1] \in {".json", ".yaml"}
    \/ \E i \in DOMAIN url : toLowerCase(url)[i] = "/api-docs"

ResponseUrls ==
    {<<"https://", "h.io", "/openapi", ".json">>,
     <<"https://", "h.io", "/swagger", ".json">>,
     <<"https://", "h.io", "/app.js">>}

PageBody(contentType, format, value) ==
    [contentType |-> contentType, format |-> format, value |-> value]

ResponseBodies ==
    {PageBody("application/json", "json", Object(PetStore3)),
     PageBody("application/json", "json", Object(PetStore2)),
     PageBody("application/json", "json", Object(NoInfo3)),
     PageBody("application/yaml", "yaml", Object(PetStore3)),
     PageBody("text/html", "html", Null)}

HandlerIdle == [pc |-> "idle", url |-> <<>>, body |-> PageBody("", "", Null)]

HandlerDone == [HandlerIdle EXCEPT !.pc = "returned"]

\* JSON.parse(text) in swagger-ui.js, JSON.parse and then yaml.load in
\* redoc.js; null stands for text that was not parsed.
parsedBody(extractor, body) ==
    IF body.format = "json" \/ (body.format = "yaml" /\ extractor = "redoc")
    THEN body.value ELSE Null

validBody(extractor, body) ==
    IF extractor = "redoc" THEN validateSpecRedoc(parsedBody(extractor, body)).ok
    ELSE validateSpecSwaggerUI(parsedBody(extractor, body)).ok

Intercepting == pg # NONE /\ pg.op = "setupNetworkInterception"

InterceptUnchanged == UNCHANGED <<cacheVars, vs, fos, inv, urlCacheFile, disc, extVars>>

\* A response arrives: `if (capturedSpec) return`, the URL test, the
\* content-type test, then the handler waits for the body.
ResponseArrives(r, url, body) ==
    /\ Intercepting /\ pg.listening
    /\ pg.handlers[r].pc = "idle"
    /\ pg' = [pg EXCEPT !.handlers[r] =
                 IF \/ pg.capturedSpec # Null
                    \/ ~matchesSpecUrl(url)
                    \/ body.contentType = "text/html"
                 THEN HandlerDone
                 ELSE [pc |-> "text", url |-> url, body |-> body]]
    /\ InterceptUnchanged

\* response.text() resolves: parse, validate, and assign both variables.
ResponseText(r) ==
    /\ Intercepting
    /\ pg.handlers[r].pc = "text"
    /\ pg' = IF validBody(pg.extractor, pg.handlers[r].body)
             THEN [pg EXCEPT !.handlers[r] = HandlerDone,
                             !.capturedSpec = parsedBody(pg.extractor, pg.handlers[r].body),
                             !.capturedUrl = pg.handlers[r].url,
                             !.assigned = pg.assigned + 1,
                             !.replaced = pg.replaced \/ pg.capturedSpec # Null]
             ELSE [pg EXCEPT !.handlers[r] = HandlerDone]
    /\ InterceptUnchanged

\* response.text() rejects: the catch swallows it.
ResponseTextFails(r) ==
    /\ Intercepting
    /\ pg.handlers[r].pc = "text"
    /\ pg' = [pg EXCEPT !.handlers[r] = [HandlerIdle EXCEPT !.pc = "caught"]]
    /\ InterceptUnchanged

\* cleanup(): page.off('response', responseHandler)
InterceptorCleanup ==
    /\ Intercepting /\ pg.listening
    /\ pg' = [pg EXCEPT !.listening = FALSE]
    /\ InterceptUnchanged

InterceptInit ==
    /\ CacheFresh /\ vs = NONE /\ fos = NONE /\ inv = NONE
    /\ urlCacheFile = NoUrlCache /\ disc = NONE /\ ExtFresh
    /\ pg \in [op : {"setupNetworkInterception"},
               extractor : {"swagger-ui", "redoc"},
               capturedSpec : {Null},
               capturedUrl : {<<>>},
               listening : {TRUE},
               handlers : {[r \in PageResponses |-> HandlerIdle]},
               assigned : {0},
               replaced : {FALSE}]

InterceptNext ==
    \/ \E r \in PageResponses, url \in ResponseUrls, body \in ResponseBodies :
          ResponseArrives(r, url, body)
    \/ \E r \in PageResponses : ResponseText(r)
    \/ \E r \in PageResponses : ResponseTextFails(r)
    \/ InterceptorCleanup

SpecIntercept == InterceptInit /\ [][InterceptNext]_vars

\* ------------------------------------------------------------------ cache claims
Normalized(url) == toLowerCase(trim(url))

\* C1: after setCache(k, v, {ttl}) with a numeric ttl, a following getCached(k)
\* returns v while the clock is before cachedAt + ttl and fails with
\* CacheExpiredError once the clock is past cachedAt + ttl.
C1_PutThenGetUntilTtl ==
    (ret.op = "getCached" /\ lastSet.op = "setCache" /\ ret.url = lastSet.url
        /\ lastSet.ttl # NoTime)
    => /\ now < lastSet.at + lastSet.ttl
            => (ret.kind = "ok" /\ SpecOf(ret) = {lastSet.spec})
       /\ now > lastSet.at + lastSet.ttl => ret.kind = "CacheExpiredError"

\* C2: two URLs equal after trimming and lower-casing address one entry:
\* getCached of one finds what setCache of the other stored, clearCache of one
\* removes it, and the manifest holds at most one entry for them.
C2_NormalizationInvariantKey ==
    /\ (ret.op = "getCached" /\ lastSet.op = "setCache"
            /\ Normalized(ret.url) = Normalized(lastSet.url))
        => /\ ret.kind # "CacheNotFoundError"
           /\ ret.kind = "ok" => SpecOf(ret) = {lastSet.spec}
           /\ lastSet.ttl = NoTime => ret.kind = "ok"
    /\ (ret.op = "clearCache" /\ ret.kind = "CacheNotFoundError" /\ lastSet.op = "setCache")
        => Normalized(ret.url) # Normalized(lastSet.url)
    /\ (ret.op = "clearCache" /\ ret.kind = "ok" /\ ret.url # <<>>)
        => \A k \in DOMAIN manifestFile.entries :
              Normalized(manifestFile.entries[k].url) # Normalized(ret.url)
    /\ \A k1, k2 \in DOMAIN manifestFile.entries :
          Normalized(manifestFile.entries[k1].url) = Normalized(manifestFile.entries[k2].url)
          => k1 = k2

C2_Witness ==
    /\ ret.op = "getCached" /\ ret.url = U1x /\ ret.kind = "ok"
    /\ lastSet.op = "setCache" /\ lastSet.url = U1
    /\ SpecOf(ret) = {lastSet.spec}

\* ------------------------------------------------------------------ validateSpec claims
DeclaresOpenapi3(v) ==
    /\ v.type = "object"
    /\ v.doc.openapi \in {"3.0.0", "3.1.0"}
    /\ v.doc.info = "obj"
    /\ "obj" \in {v.doc.paths, v.doc.webhooks, v.doc.components}

DeclaresSwagger2(v) ==
    /\ v.type = "object"
    /\ v.doc.swagger = "2.0"
    /\ v.doc.info = "obj"
    /\ v.doc.paths = "obj"

\* C9: validateSpec accepts a parsed value exactly when it is an object that
\* declares a string openapi 3.x version with info and one of paths, webhooks,
\* components, or swagger "2.0" with info and paths; {openapi: "3.0.0", info,
\* paths} is accepted as type openapi and the same document with openapi "2.0"
\* and no swagger field is rejected.
C9_ValidationPolicy ==
    vs.op = "validateSpec"
    => /\ vs.out.ok <=> (DeclaresOpenapi3(vs.value) \/ DeclaresSwagger2(vs.value))
       /\ vs.value = Object(PetStore3) => (vs.out.ok /\ vs.out.type = "openapi")
       /\ vs.value = Object(Mislabeled) => ~vs.out.ok

C9_Witness ==
    /\ vs.op = "validateSpec"
    /\ vs.value = Object(PetStore3)
    /\ vs.out.ok /\ vs.out.type = "openapi"

\* ------------------------------------------------------------------ fetchOpenAPISpec claims
Fetching == fos.op \in {"fetchOpenAPISpec", "returned", "threw"}

DirectTarget == isDirectSpecUrl(fos.normalizedUrl)

LastUrl == fos.requests[Len(fos.requests)]

\* The call returned the spec of candidate idx, the candidates before it having
\* all answered 404 and this one 200.
ProbeHitAfter404s ==
    /\ fos.op = "returned" /\ fos.lastWas = "probe" /\ fos.last.found
    /\ fos.prior404 /\ fos.lastStatus = 200

\* C5 as stated: when the first N candidates answer 404 and the (N+1)th answers
\* 200 with a valid body, the call issues exactly N+1 requests and returns that
\* candidate's spec with its probe URL as sourceUrl.
C5_ExactlyNPlusOneRequests ==
    ProbeHitAfter404s
    => /\ Len(fos.requests) = fos.idx
       /\ fos.result = FetchResult(fos.last, ProbeUrl(fos.normalizedUrl, fos.idx))

\* C5 amended: that holds for a target that is not a direct spec URL; for a
\* direct spec URL the failed direct fetch is one more request before the probes.
C5_ProbeRequestsAfterDirect ==
    ProbeHitAfter404s
    => /\ Len(fos.requests) = fos.idx + (IF DirectTarget THEN 1 ELSE 0)
       /\ fos.result # NoResult
       /\ fos.result = FetchResult(fos.last, ProbeUrl(fos.normalizedUrl, fos.idx))
       /\ LastUrl = ProbeUrl(fos.normalizedUrl, fos.idx)

C5_Witness ==
    /\ ProbeHitAfter404s
    /\ ~DirectTarget
    /\ fos.idx = 3 /\ Len(fos.requests) = 3

\* C6: an unsuccessful probe never throws: tryFetchSpec returns null, the loop
\* moves to the next candidate, and when all candidates failed the call
\* returns null.
C6_FailedProbeAdvances ==
    /\ Fetching => fos.op # "threw"
    /\ (Fetching /\ fos.lastWas = "probe" /\ ~fos.last.found)
        => /\ fos.last.thrown = ""
           /\ fos.last.stage \in {"fetch", "status", "text", "html", "parse", "validate"}
           /\ fos.idx = Len(fos.requests) - (IF DirectTarget THEN 1 ELSE 0) + 1
           /\ fos.pc = IF fos.idx <= Len(COMMON_SPEC_PATHS) THEN "probe" ELSE "return"
    /\ (fos.op = "returned" /\ ~fos.last.found) => fos.result = NoResult

C6_Witness ==
    /\ fos.op = "returned" /\ fos.lastWas = "probe"
    /\ fos.idx = Len(COMMON_SPEC_PATHS) + 1
    /\ fos.last.stage = "validate"
    /\ fos.result = NoResult

\* C7: a direct spec URL whose document parses but fails validation ends the
\* call with InvalidSpecError; no probing follows.
C7_DirectInvalidIsTerminal ==
    (Fetching /\ fos.lastWas = "direct" /\ fos.last.stage = "validate")
    => (fos.op = "threw" /\ fos.last.thrown = "InvalidSpecError")

JsonUrl(url) == endsWith(toLowerCase(url), ".json")

Handling == inv.op \in {"handleFetch", "handleEndpoints"}

LastCalled == inv.trace[Len(inv.trace)]

\* The place of a strategy in the order of the URL branches.
UrlOrder(s) ==
    CASE s = "fetchOpenAPISpec" -> 1
      [] s = "scrapeEndpoints" -> 2
      [] s = "extractFromSwaggerUI" -> 3

\* C3: in both handlers a strategy that yields a result is the last one called
\* and the handler goes to its output; a strategy that yields nothing is
\* followed by the next one (for a URL: fetchOpenAPISpec, scrapeEndpoints,
\* extractFromSwaggerUI), and a run that ends without a result ended on the
\* last strategy.
C3_FirstResultEndsTheCascade ==
    Handling
    => /\ \A i \in DOMAIN inv.trace :
            inv.trace[i].y # "nothing" => i = Len(inv.trace)
       /\ (inv.trace # <<>> /\ LastCalled.y = "result")
            => /\ inv.pc \in {"output", "done"}
               /\ inv.out \in {"", "spec", "scraped", "threw"}
       /\ isUrl(inv.query)
            => \A i \in 1..(Len(inv.trace) - 1) :
                    UrlOrder(inv.trace[i + 1].s) = UrlOrder(inv.trace[i].s) + 1
       /\ (inv.trace # <<>> /\ LastCalled.y = "nothing" /\ isUrl(inv.query)
                /\ inv.pc # "done")
            => inv.pc = IF LastCalled.s = "fetchOpenAPISpec" THEN "scrape" ELSE "swagger"
       /\ (inv.trace # <<>> /\ LastCalled.y = "nothing" /\ inv.pc = "done"
                /\ inv.out # "threw")
            => LastCalled.s = "extractFromSwaggerUI"

C3_Witness ==
    /\ Handling /\ isUrl(inv.query) /\ inv.pc = "done" /\ inv.out = "spec"
    /\ Len(inv.trace) = 3
    /\ inv.trace[1].y = "nothing" /\ inv.trace[2].y = "nothing"
    /\ LastCalled.y = "result"

Rendered == {"scrapeEndpoints", "extractFromSwaggerUI"}

\* C4: for a URL and for a provider name, a rendered-page strategy starts only
\* after fetchOpenAPISpec (direct fetch and path probing) ran on the same
\* target and gave no spec.
C4_RenderedAfterFetchAndProbe ==
    Handling
    => \A i \in DOMAIN inv.trace :
            inv.trace[i].s \in Rendered
            => \E j \in 1..(i - 1) :
                    /\ inv.trace[j].s = "fetchOpenAPISpec"
                    /\ inv.trace[j].target = inv.trace[i].target
                    /\ inv.trace[j].y = "nothing"

NotBypassed ==
    \/ inv.op = "handleFetch" /\ ~inv.noCache
    \/ inv.op = "handleEndpoints" /\ ~inv.force

\* C10: when the cache is not bypassed, for a URL and for a provider name, the
\* spec cache is read before any strategy runs; no strategy runs on a target
\* the cache holds an unexpired spec for; CacheNotFoundError and
\* CacheExpiredError are a miss after which the strategies run.
C10_CacheBeforeStrategies ==
    (Handling /\ NotBypassed)
    => /\ inv.trace # <<>> => inv.cache = "miss"
       /\ \A i \in DOMAIN inv.trace : ~inv.trace[i].cachedOk
       /\ inv.cache = "hit" => inv.trace = <<>>
       /\ (inv.cache = "miss" /\ inv.pc = "done") => inv.trace # <<>>

\* The cache files hold spec for url: a manifest entry and its blob.
CacheHolds(url, spec) ==
    LET key == generateCacheKey(url)
        m == readManifest
    IN  /\ key \in DOMAIN m.entries
        /\ m.entries[key].filename \in DOMAIN blobs
        /\ blobs[m.entries[key].filename].spec = spec

Succeeded == Handling /\ inv.pc = "done" /\ inv.out \in {"spec", "scraped"}

\* C11: a run that missed the cache and then got a result from any strategy
\* has written that result to the cache under its target, so that the next
\* run on the target is served from the cache.
C11_ResultWrittenBack ==
    (Succeeded /\ NotBypassed /\ inv.cache = "miss")
    => /\ inv.wrote
       /\ \E spec \in inv.spec : CacheHolds(Target, spec)

\* C12 as stated: for a manifest entry whose blob file is missing getCached
\* fails with CacheNotFoundError, and the handlers take it as a miss.
C12_MissingBlobIsNotFound ==
    /\ \A u \in {U1, U2, ApiRef} :
            MissingBlob(u) => getCached(u).kind = "CacheNotFoundError"
    /\ (Handling /\ inv.blobMissing)
        => /\ inv.lookup = "CacheNotFoundError"
           /\ inv.cache = "miss"
           /\ inv.trace = <<>> => inv.pc = afterCache(inv.query)

\* C12 amended: getCached fails with CacheExpiredError when the entry is
\* expired and with CacheNotFoundError otherwise, never with another error;
\* either way the handlers take it as a miss and go on to the strategies.
C12_MissingBlobIsAMiss ==
    /\ \A u \in {U1, U2, ApiRef} :
            MissingBlob(u)
            => getCached(u).kind =
                    IF isExpired(readManifest.entries[generateCacheKey(u)], now)
                    THEN "CacheExpiredError" ELSE "CacheNotFoundError"
    /\ (Handling /\ inv.blobMissing)
        => /\ inv.lookup \in {"CacheNotFoundError", "CacheExpiredError"}
           /\ inv.cache = "miss"
           /\ inv.trace = <<>> => inv.pc = afterCache(inv.query)

C12_Witness ==
    /\ Handling /\ inv.blobMissing
    /\ inv.lookup = "CacheNotFoundError"
    /\ inv.trace # <<>>

\* ------------------------------------------------------------------ rendered page claims
Extracted == pg.op \in {"scrapeEndpoints", "extractFromSwaggerUI", "extractFromRedoc"}

\* C13: a rendered-page extraction of a page that shows an authentication-wall
\* signal runs no extraction layer and fails with AuthenticationRequiredError.
C13_AuthWallAborts ==
    (Extracted /\ pg.page.auth \in AuthSignals)
    => /\ pg.out.kind = "AuthenticationRequiredError"
       /\ pg.out.layers = {}
       /\ pg.out.endpoints = <<>>

\* The first framework in the order swagger-ui, redoc, scalar whose marker the
\* page has.
FirstMarked(page) ==
    LET i == CHOOSE i \in DOMAIN Frameworks :
                /\ Frameworks[i] \in page.markers
                /\ \A j \in 1..(i - 1) : Frameworks[j] \notin page.markers
    IN  Frameworks[i]

FirstSeen(page, e) ==
    page.ops[CHOOSE i \in DOMAIN page.ops :
                /\ SameOperation(page.ops[i], e)
                /\ \A j \in 1..(i - 1) : ~SameOperation(page.ops[j], e)]

\* C17: the list the DOM layer of any framework extractor returns has one
\* entry per (method, path), which is the first one seen, with its description.
C17_OneEntryPerOperation ==
    (pg.op = "scrapeEndpoints" /\ pg.out.kind = "ok" /\ ~pg.page.spec)
    => /\ \A i, j \in DOMAIN pg.out.endpoints :
            SameOperation(pg.out.endpoints[i], pg.out.endpoints[j]) => i = j
       /\ \A i \in DOMAIN pg.out.endpoints :
            pg.out.endpoints[i] = FirstSeen(pg.page, pg.out.endpoints[i])
       /\ \A k \in DOMAIN pg.page.ops :
            \E i \in DOMAIN pg.out.endpoints :
                SameOperation(pg.out.endpoints[i], pg.page.ops[k])

\* What the user is told when the strategies found nothing and raised nothing.
PlainNotFound == {"none-found", "could-not-extract"}

\* C14: when a strategy raised AuthenticationRequiredError the run ends there,
\* and what the user is told names the authentication failure instead of the
\* plain nothing-found text.
C14_AuthRequiredReachesUser ==
    (Handling /\ inv.raised = "AuthenticationRequiredError")
    => /\ inv.pc = "done"
       /\ LastCalled.s = "extractFromSwaggerUI"
       /\ inv.detail = "AuthenticationRequiredError"
       /\ inv.out \notin PlainNotFound

IsLookup == disc.op = "lookupProvider"
IsSearch == disc.op = "searchProvider"
Range(seq) == {seq[i] : i \in DOMAIN seq}

\* The call read the URL cache file and the read failed, or wrote it and the
\* write failed.
CacheFileFailed ==
    \/ disc.read = "EIO" /\ (~disc.forceRefresh \/ disc.search.kind = "ok")
    \/ disc.write # "ok" /\ disc.search.kind = "ok"

\* C15: a lookup during which reading or writing the discovery cache file
\* failed ends with an I/O error, not with a result, a not-found error or a
\* search/fetch error.
C15_CacheFileFailureIsIOError ==
    (IsLookup /\ CacheFileFailed) => disc.result.kind = "CacheIOError"

\* The entry cacheUrl stores for a result found at time `at`.
StoredEntry(result, at) ==
    [provider |-> result.provider, page |-> result.page,
     cachedAt |-> at, expiresAt |-> at + URL_CACHE_TTL]

NormalizedKey == toLowerCase(trim(disc.query))

\* C18: for a provider name, with the cache file readable: without
\* forceRefresh an unexpired entry under the trimmed, lower-cased query is
\* returned with source "cache" and searchProvider is not called; an expired
\* or absent entry leads to a search; with forceRefresh a search is made
\* whatever the cache holds; and a result of a search is stored under that key.
C18_CacheBeforeSearch ==
    (IsLookup /\ NormalizedKey # <<>>)
    => /\ (disc.read = "ok" /\ ~disc.forceRefresh /\ disc.held)
            => /\ disc.result.kind = "ok"
               /\ disc.result.source = "cache"
               /\ disc.result.provider = urlCacheFile.entries[NormalizedKey].provider
               /\ disc.search = NoSearch
       /\ (disc.read = "ok" /\ ~disc.forceRefresh /\ ~disc.held) => disc.search # NoSearch
       /\ disc.forceRefresh => disc.search # NoSearch
       /\ (disc.result.kind = "ok" /\ disc.result.source = "apitracker")
            => /\ urlCacheFile.exists
               /\ NormalizedKey \in DOMAIN urlCacheFile.entries
               /\ urlCacheFile.entries[NormalizedKey] = StoredEntry(disc.result, disc.at)

\* An unexpired entry stored under "stripe" answers a lookup of " STRIPE ".
C18_Witness ==
    /\ IsLookup
    /\ disc.query = Q1x
    /\ ~disc.forceRefresh
    /\ disc.held
    /\ disc.result.source = "cache"

\* The direct URL ended on a provider page.
DirectPage == IsSearch /\ disc.web.browser = "ok" /\ disc.web.direct = "page"

SearchReached ==
    /\ disc.web.browser = "ok"
    /\ disc.web.direct # "error"
    /\ ~(disc.web.direct = "page" /\ disc.web.directDocs)

SurfaceErrored ==
    \/ disc.web.browser # "ok"
    \/ disc.web.direct = "error"
    \/ SearchReached /\ disc.web.search = "error"

CandidateFound ==
    /\ disc.web.browser = "ok"
    /\ \/ disc.web.direct = "page"
       \/ SearchReached /\ disc.web.search \in {"redirect", "results"}

\* C20: searchProvider fails with ProviderNotFoundError exactly when no
\* provider page was found, with DocsUrlNotFoundError when one was found and
\* no link was extracted, with a search error when the surface failed; and
\* lookupProvider hands the three on as three different errors.
C20_FailuresStayDistinct ==
    /\ IsSearch
        => /\ disc.search.kind = "ProviderNotFoundError"
                <=> (~SurfaceErrored /\ ~CandidateFound)
           /\ (disc.search.kind # "ok" /\ ~SurfaceErrored /\ CandidateFound)
                => disc.search.kind = "DocsUrlNotFoundError"
           /\ SurfaceErrored => disc.search.kind = "APITrackerSearchError"
    /\ (IsLookup /\ disc.search.kind = "DocsUrlNotFoundError")
        => disc.result.kind # "ProviderNotFoundError"
    /\ (IsLookup /\ disc.search.kind = "APITrackerSearchError")
        => disc.result.kind = "DiscoveryFetchError"

\* The match class of a link for a query: 5 exact slug, 4 slug prefix,
\* 3 slug substring, 2 link text, 1 surrounding text, 0 none.
MatchClass(link, q) ==
    LET slug == toLowerCase(link.slug)
    IN  CASE slug = q -> 5
          [] StartsWithSeq(slug, q) -> 4
          [] IncludesSeq(slug, q) -> 3
          [] IncludesSeq(toLowerCase(trim(link.text)), q) -> 2
          [] IncludesSeq(toLowerCase(trim(link.parentText)), q) -> 1
          [] OTHER -> 0

Ranked == disc.op = "findBestSearchResult"

\* C21: findBestSearchResult returns one of the links, of the highest match
\* class among all links and of a class above none; it returns null exactly
\* when no link matches in any class.
C21_BestMatchClass ==
    Ranked
    => LET classes == {MatchClass(disc.links[i], disc.query) : i \in DOMAIN disc.links}
       IN  IF \A c \in classes : c = 0
           THEN disc.best = NoCandidate
           ELSE /\ disc.best # NoCandidate
                /\ \E i \in DOMAIN disc.links : disc.links[i] = disc.best.link
                /\ MatchClass(disc.best.link, disc.query) > 0
                /\ \A c \in classes : c <= MatchClass(disc.best.link, disc.query)

\* A weaker match comes first on the page and a stronger one is returned.
C21_Witness ==
    /\ Ranked
    /\ Len(disc.links) >= 2
    /\ MatchClass(disc.links[1], disc.query) = 1
    /\ MatchClass(disc.best.link, disc.query) = 5

C29_OneLiveBrowser ==
    br # NONE => Cardinality(Live) <= 1

\* C30: the disconnected handler of a browser other than the one held in
\* browserInstance found neither a live browser in browserInstance nor pages
\* in activePages to clear.
C30_StaleDisconnectClearsNothing ==
    (br # NONE /\ br.event.b # NoBrowser /\ br.event.b # br.event.was)
    => /\ br.event.was = NoBrowser
       /\ br.event.tracked = {}

\* The manifest and blob files before and after a clearCache step.
ClearedOne(url) ==
    LET key == generateCacheKey(url)
    IN  IF key \in DOMAIN manifestFile.entries
        THEN /\ ret'.kind = "ok"
             /\ ret'.cleared = 1
             /\ manifestFile'.entries = Drop(manifestFile.entries, key)
             /\ blobs' = Drop(blobs, manifestFile.entries[key].filename)
        ELSE /\ ret'.kind = "CacheNotFoundError"
             /\ manifestFile' = manifestFile
             /\ blobs' = blobs

ClearedAll ==
    /\ ret'.kind = "ok"
    /\ ret'.cleared = Cardinality(DOMAIN manifestFile.entries)
    /\ manifestFile'.entries = <<>>
    /\ \A k \in DOMAIN manifestFile.entries :
            manifestFile.entries[k].filename \notin DOMAIN blobs'

\* C23: clearCache(url) removes the manifest entry and the blob of url's key,
\* nothing else, and returns 1, or fails with CacheNotFoundError and changes
\* nothing when the manifest has no entry for the key; clearCache() leaves no
\* entry and returns the number of entries there were.
C23_ClearRemovesExactly ==
    [][ret'.op = "clearCache"
        => IF ret'.url = <<>> THEN ClearedAll ELSE ClearedOne(ret'.url)]_vars

KeyOf(p) == generateCacheKey(Proc(p).url)

EntryOf(p) == ManifestEntry(Proc(p).url, Proc(p).spec, Proc(p).ttl, Proc(p).at)

\* C24: whatever the interleaving of the setCache steps of two processes and
\* wherever a process is killed, every manifest entry names a blob file that
\* exists.
C24_NoDanglingEntry ==
    sc # NONE
    => \A k \in DOMAIN manifestFile.entries :
            manifestFile.entries[k].filename \in DOMAIN blobs

\* An invocation was killed after its blob write: the blob has no entry.
C24_Witness ==
    /\ sc # NONE
    /\ \E p \in Procs : /\ Proc(p).pc = "killed"
                        /\ FileName(KeyOf(p)) \in DOMAIN blobs
                        /\ KeyOf(p) \notin DOMAIN manifestFile.entries

\* C25: when two invocations on one key have both completed, the manifest
\* entry of the key is the one of the invocation that wrote the manifest last.
C25_LastWriterWins ==
    (sc # NONE /\ (\A p \in Procs : Proc(p).pc = "done") /\ KeyOf("p1") = KeyOf("p2"))
    => /\ KeyOf("p1") \in DOMAIN manifestFile.entries
       /\ manifestFile.entries[KeyOf("p1")] = EntryOf(sc.lastWriter[KeyOf("p1")])

\* Both completed on one key with different entries, and the one that wrote
\* its blob first wrote the manifest last.
C25_Witness ==
    /\ sc # NONE
    /\ \A p \in Procs : Proc(p).pc = "done"
    /\ KeyOf("p1") = KeyOf("p2")
    /\ EntryOf("p1") # EntryOf("p2")
    /\ sc.lastWriter[KeyOf("p1")] = "p1"
    /\ blobs[FileName(KeyOf("p1"))].metadata.expiresAt = EntryOf("p2").expiresAt

\* C26: when two invocations on two keys have both completed, the manifest
\* holds the entries of both keys.
C26_NoLostUpdate ==
    (sc # NONE /\ (\A p \in Procs : Proc(p).pc = "done") /\ KeyOf("p1") # KeyOf("p2"))
    => \A p \in Procs : KeyOf(p) \in DOMAIN manifestFile.entries

\* C27: for every manifest entry whose blob exists, the blob's metadata has
\* the entry's url, cachedAt and expiresAt.
C27_BlobMatchesEntry ==
    sc # NONE
    => \A k \in DOMAIN manifestFile.entries :
          LET e == manifestFile.entries[k]
          IN  e.filename \in DOMAIN blobs
              => /\ blobs[e.filename].metadata.url = e.url
                 /\ blobs[e.filename].metadata.cachedAt = e.cachedAt
                 /\ blobs[e.filename].metadata.expiresAt = e.expiresAt

\* The entry is past its expiry at the clock: it has an expiresAt and the
\* clock is after it.
PastExpiry(entry) == entry.expiresAt # NoTime /\ entry.expiresAt < now

\* C28: a getCached or listCache call leaves the manifest and every blob as
\* they were; getCached answers Expired exactly for a key whose entry has an
\* expiresAt before the clock of the call, so never for an entry stored
\* without a TTL; listCache with its default options reports every manifest
\* entry, and reports each entry it returns with isExpired true exactly when
\* the entry is past its expiry.
C28_ReadsOnlyRead ==
    [][ret'.op \in {"getCached", "listCache"}
        => /\ manifestFile' = manifestFile
           /\ blobs' = blobs
           /\ ret'.op = "getCached"
              => LET key == generateCacheKey(ret'.url)
                 IN  ret'.kind = "CacheExpiredError"
                     <=> (key \in DOMAIN readManifest.entries
                          /\ PastExpiry(readManifest.entries[key]))
           /\ ret'.op = "listCache"
              => /\ \A r \in ret'.data : r.isExpired <=> PastExpiry(r.entry)
                 /\ (ret'.includeExpired /\ ~ret'.checkFiles)
                    => {r.entry : r \in ret'.data}
                       = {readManifest.entries[k] : k \in DOMAIN readManifest.entries}]_vars

\* listCache reported an expired entry, and the manifest file still holds it.
C28_Witness ==
    /\ ret.op = "listCache"
    /\ \E r \in ret.data :
          /\ r.isExpired
          /\ manifestFile.exists
          /\ \E k \in DOMAIN manifestFile.entries : manifestFile.entries[k] = r.entry

\* C31: when the process has exited through the handler of a signal or of an
\* uncaught exception, no page is open, no browser is live, browserInstance
\* is null and no browser launch was left in flight.
C31_AllClosedAtExit ==
    Exited => /\ OpenPages = {}
              /\ Live = {}
              /\ br.browserInstance = NoBrowser
              /\ \A t \in Tasks : Task(t).pc # "launching"

C33_NothingAttemptedTwice ==
    /\ fos.op \in {"fetchOpenAPISpec", "returned", "threw"}
       => \A i, j \in DOMAIN fos.requests :
             i # j => fos.requests[i] # fos.requests[j]
    /\ inv.op \in {"handleFetch", "handleEndpoints"}
       => \A i, j \in DOMAIN inv.trace :
             (i # j /\ inv.trace[i].s = "scrapeEndpoints" /\ inv.trace[j].s = "scrapeEndpoints")
             => inv.trace[i].target # inv.trace[j].target

\* C34: while a tryFetchSpec request is pending, for its response or for its
\* body, the abort timer is armed; once tryFetchSpec has returned it is not.
C34_TimerArmedWhilePending ==
    fos.op = "tryFetchSpec"
    => /\ fos.pc \in {"fetch", "text"} => fos.timer = "armed"
       /\ fos.pc = "returned" => fos.timer # "armed"

\* C38: the validators of the direct-fetch path, of the Swagger UI extractor
\* and of the Redoc extractor accept the same documents.
C38_OneValidationPolicy ==
    vs.op = "validators"
    => /\ vs.swaggerUI.ok <=> vs.out.ok
       /\ vs.redoc.ok <=> vs.out.ok

\* What the layer named `name` of the extraction in pg holds on the page.
LayerHeld(name) ==
    IF pg.op = "spec" THEN pg.page[name]
    ELSE IF name = "scripts" THEN pg.page.inline.endpoints
    ELSE IF name = "specUrl" THEN pg.page.specUrl.endpoints
    ELSE pg.page[name]

LayersDone == pg.op \in {"endpoints", "spec"}

\* Every layer that ran came after layers that yielded nothing.
LaterOnlyAfterNothing ==
    \A i, j \in DOMAIN pg.out.ran : i < j => Nothing(LayerHeld(pg.out.ran[i]))

\* The first layer that ran and yielded something, when there is one.
Earliest ==
    {i \in DOMAIN pg.out.ran :
        /\ ~Nothing(LayerHeld(pg.out.ran[i]))
        /\ \A j \in DOMAIN pg.out.ran : j < i => Nothing(LayerHeld(pg.out.ran[j]))}

C36_ValidLayerIsReturned ==
    (pg.op = "spec"
     /\ \E name \in {"state", "network", "scripts"} :
            /\ name = "state" => pg.page.ready
            /\ IF pg.extractor = "extractFromRedoc"
               THEN validateSpecRedoc(pg.page[name]).ok
               ELSE validateSpecSwaggerUI(pg.page[name]).ok)
    => ~Nothing(pg.out.yield)

\* C37: the interceptor assigns its captured spec at most once per page, a
\* captured spec is never replaced by a later response, and the captured URL
\* is the URL of the response the captured spec came from.
C37_CapturedOnce ==
    Intercepting
    => /\ pg.assigned <= 1
       /\ ~pg.replaced
       /\ pg.capturedSpec # Null
          => \E url \in ResponseUrls, body \in ResponseBodies :
                /\ matchesSpecUrl(url) /\ validBody(pg.extractor, body)
                /\ pg.capturedUrl = url
                /\ pg.capturedSpec = parsedBody(pg.extractor, body)

LookupFails ==
    /\ disc' # disc
    /\ disc'.op = "lookupProvider"
    /\ disc'.result.kind \in {"ProviderNotFoundError", "DiscoveryFetchError"}

\* C39: a lookupProvider that fails leaves the entries of the URL cache as
\* they were: none is created, overwritten or removed, so an entry cached
\* before it is still there for a later lookup.
C39_FailedLookupLeavesCache ==
    [][LookupFails => urlCacheFile'.entries = urlCacheFile.entries]_vars

====
